---- MODULE Spec2Model ----
(***************************************************************************)
(* LetsFinance: the App store (transactions, accounts, confirmation modal, *)
(* local storage), the Settings account handlers, and the derived views of *)
(* Dashboard, Reports and TransactionList.                                 *)
(*                                                                         *)
(* Time is counted in whole hours since 1970-01-01T00:00Z, a calendar date *)
(* string "YYYY-MM-DD" is the triple <<year, month, day>>, and the time    *)
(* zone of the browser is a whole number of hours east of UTC.             *)
(***************************************************************************)
EXTENDS Integers, Sequences, FiniteSets, TLC

(***************************************************************************)
(* Bounds of the model.                                                    *)
(***************************************************************************)
\* longest transaction list the add form may build in the App specifications
MaxTx == 2
\* number of clock steps taken after the start instant
MaxTicks == 1
\* longest accounts list addAccount may build
MaxAccounts == 2
\* longest stored transaction list of the TransactionList specification
MaxStored == 11
\* deletions confirmed from one stored list in the TransactionList specification
MaxDeletes == 2
\* navigateDate calls made while Reports stays mounted
MaxNav == 3

(***************************************************************************)
(* Program constants.                                                      *)
(***************************************************************************)
ITEMS_PER_PAGE == 10
TOP_N == 5
DemoAmount == 5000000
HoursPerDay == 24

INCOME == "Pemasukan"
EXPENSE == "Pengeluaran"

\* a transaction without accountId (the field is optional)
NoAccount == 0
\* the literal 'unknown' the form falls back to when there is no account
UnknownAccount == -1
\* InvoiceGenerator: currentId '' (no invoice is being edited)
NoInvoice == 0

(***************************************************************************)
(* The JavaScript Date object.                                             *)
(***************************************************************************)
\* days from 1970-01-01 to the civil date y-m-d (m in 1..12), proleptic Gregorian
DaysFromCivil(y, m, d) ==
  LET yy  == IF m <= 2 THEN y - 1 ELSE y
      era == yy \div 400
      yoe == yy - era * 400
      mp  == IF m > 2 THEN m - 3 ELSE m + 9
      doy == (153 * mp + 2) \div 5 + d - 1
      doe == yoe * 365 + yoe \div 4 - yoe \div 100 + doy
  IN  era * 146097 + doe - 719468

\* the civil date <<y, m, d>> of day number z
CivilFromDays(z) ==
  LET zz  == z + 719468
      era == zz \div 146097
      doe == zz - era * 146097
      yoe == (doe - doe \div 1460 + doe \div 36524 - doe \div 146096) \div 365
      doy == doe - (365 * yoe + yoe \div 4 - yoe \div 100)
      mp  == (5 * doy + 2) \div 153
      d   == doy - (153 * mp + 2) \div 5 + 1
      m   == IF mp < 10 THEN mp + 3 ELSE mp - 9
      y   == yoe + era * 400 + (IF m <= 2 THEN 1 ELSE 0)
  IN  <<y, m, d>>

\* ECMAScript MakeDay: month index m0 (0-based) and day d may lie out of range
MakeDay(y, m0, d) == DaysFromCivil(y + (m0 \div 12), (m0 % 12) + 1, 1) + d - 1

\* new Date("YYYY-MM-DD"): a date-only string is read as midnight UTC
ParseDate(date) == HoursPerDay * DaysFromCivil(date[1], date[2], date[3])

\* d.toISOString().split('T')[0]: the UTC calendar date of instant h
ToISODate(h) == CivilFromDays(h \div HoursPerDay)

\* local calendar fields of instant h in a zone off hours east of UTC
LocalDay(h, off) == (h + off) \div HoursPerDay
LocalHour(h, off) == (h + off) % HoursPerDay
GetFullYear(h, off) == CivilFromDays(LocalDay(h, off))[1]
GetMonth(h, off) == CivilFromDays(LocalDay(h, off))[2] - 1
GetDate(h, off) == CivilFromDays(LocalDay(h, off))[3]
\* 0 = Sunday .. 6 = Saturday; 1970-01-01 was a Thursday
GetDay(h, off) == (LocalDay(h, off) + 4) % 7

\* new Date(y, m0, d): local midnight
NewDate(y, m0, d, off) == HoursPerDay * MakeDay(y, m0, d) - off

\* d.setHours(hr) and d.setHours(0,0,0,0): hr may be negative
SetHours(h, hr, off) == HoursPerDay * LocalDay(h, off) - off + hr

\* d.setDate(n), d.setMonth(m0), d.setFullYear(y): the other local fields stay
\* a setDate that stops at the first day of the month instead of carrying
SetDate_Clamped(h, n, off) ==
  NewDate(GetFullYear(h, off), GetMonth(h, off), IF n < 1 THEN 1 ELSE n, off)
    + LocalHour(h, off)
SetDate(h, n, off) ==
  NewDate(GetFullYear(h, off), GetMonth(h, off), n, off) + LocalHour(h, off)
SetMonth(h, m0, off) ==
  NewDate(GetFullYear(h, off), m0, GetDate(h, off), off) + LocalHour(h, off)
SetFullYear(h, y, off) ==
  NewDate(y, GetMonth(h, off), GetDate(h, off), off) + LocalHour(h, off)

(***************************************************************************)
(* Sequence helpers standing for the Array methods the code uses.          *)
(***************************************************************************)
Range(s) == {s[i] : i \in DOMAIN s}

\* reduce((sum, x) => sum + x, 0) over a sequence of numbers
RECURSIVE Sum(_)
Sum(s) == IF s = <<>> THEN 0 ELSE Head(s) + Sum(Tail(s))

\* Array.prototype.slice(from, to): 0-based, from inclusive, to exclusive
Slice(s, from, to) ==
  LET lo == IF from > Len(s) THEN Len(s) ELSE from
      hi == IF to > Len(s) THEN Len(s) ELSE to
  IN  IF hi <= lo THEN <<>> ELSE SubSeq(s, lo + 1, hi)

\* Array.prototype.sort((a, b) => key(a) - key(b)), keys[i] being key(s[i]):
\* ascending by key and stable (ES2019), so an element goes behind every
\* earlier element whose key is not greater
SortAsc(s, keys) ==
  LET ks == SubSeq(keys, 1, Len(s))
      Place[i \in 0..Len(s)] ==
        IF i = 0 THEN <<>>
        ELSE LET r == Place[i - 1]
                 k == Cardinality({j \in DOMAIN r : ks[r[j]] <= ks[i]})
             IN  SubSeq(r, 1, k) \o <<i>> \o SubSeq(r, k + 1, Len(r))
      order == Place[Len(s)]
  IN  [j \in DOMAIN s |-> s[order[j]]]


(***************************************************************************)
(* Text: a string is the tuple of its characters.                          *)
(***************************************************************************)
Penjualan == <<"P", "e", "n", "j", "u", "a", "l", "a", "n">>
PenjualanMingguan == <<"P", "e", "n", "j", "u", "a", "l", "a", "n", " ", "M", "i", "n", "g", "g", "u", "a", "n">>
Toko == <<"T", "o", "k", "o">>
MakananMinuman == <<"M", "a", "k", "a", "n", "a", "n", " ", "&", " ", "M", "i", "n", "u", "m", "a", "n">>
Lainnya == <<"L", "a", "i", "n", "n", "y", "a">>
Kopi == <<"K", "o", "p", "i">>

UpperCase == <<"A", "B", "C", "D", "E", "F", "G", "H", "I", "J", "K", "L", "M", "N", "O", "P", "Q", "R", "S", "T", "U", "V", "W", "X", "Y", "Z">>
LowerCase == <<"a", "b", "c", "d", "e", "f", "g", "h", "i", "j", "k", "l", "m", "n", "o", "p", "q", "r", "s", "t", "u", "v", "w", "x", "y", "z">>

\* the lower-case letter of each upper-case letter
LowerOf ==
  [c \in Range(UpperCase) |->
     LowerCase[CHOOSE k \in DOMAIN UpperCase : UpperCase[k] = c]]

\* String.prototype.toLowerCase
ToLowerCase(text) ==
  [i \in DOMAIN text |->
     IF text[i] \in DOMAIN LowerOf THEN LowerOf[text[i]] ELSE text[i]]

\* String.prototype.includes
Includes(text, term) ==
  \E i \in 0..(Len(text) - Len(term)) : SubSeq(text, i + 1, i + Len(term)) = term

\* a < b on two "YYYY-MM-DD" strings
StrLeq_Strict(a, b) ==
  \/ a[1] < b[1]
  \/ (a[1] = b[1] /\ a[2] < b[2])
  \/ (a[1] = b[1] /\ a[2] = b[2] /\ a[3] < b[3])

\* a <= b on two "YYYY-MM-DD" strings: the fields compare left to right
StrLeq(a, b) ==
  \/ a[1] < b[1]
  \/ (a[1] = b[1] /\ a[2] < b[2])
  \/ (a[1] = b[1] /\ a[2] = b[2] /\ a[3] <= b[3])

DigitChars == <<"0", "1", "2", "3", "4", "5", "6", "7", "8", "9">>

\* Number.prototype.toString of a non-negative integer
RECURSIVE NumberToString(_)
NumberToString(n) ==
  IF n < 10 THEN <<DigitChars[n + 1]>>
  ELSE Append(NumberToString(n \div 10), DigitChars[(n % 10) + 1])

VARIABLES
  transactions,       \* App: Transaction[]
  accounts,           \* App: Account[]
  pendingAction,      \* App: the action awaiting confirmation
  modalConfig,        \* App: the confirmation modal
  view,               \* App: the mounted view
  loaded,             \* whether the load effect has run
  storage,            \* localStorage: letsfinance_accounts, letsfinance_transactions
  now,                \* the clock: Date.now() / new Date()
  tz,                 \* hours east of UTC of the browser's time zone
  period,             \* Dashboard: the selected period
  repPeriod,          \* Reports: the selected period
  currentDate,        \* Reports: the reference instant
  customRange,        \* Reports: [start, end] date strings
  selectedCategories, \* Reports: the category selection (empty = all)
  searchTerm,         \* TransactionList
  filterType,         \* TransactionList
  sortOrder,          \* TransactionList
  currentPage,        \* TransactionList
  timers,             \* per storage key, the value its pending debounced write holds
  navCount,           \* Reports: navigateDate calls since the view was mounted
  invoices,           \* App: Invoice[]
  expenseCategories,  \* App: string[]
  incomeCategories,   \* App: string[]
  showAddModal,       \* App: whether TransactionForm is mounted
  currentId,          \* InvoiceGenerator: the invoice being edited ('' = new)
  clientName,         \* InvoiceGenerator: the editor's client name
  formData,           \* TransactionForm: type and category of the form
  isScanning,         \* TransactionForm: busy flag of the receipt scan
  analysisPoints,     \* Reports: the analysis shown (null = none)
  isAnalyzing,        \* Reports: busy flag of getReportAnalysis
  loading,            \* AIAdvisor: busy flag of getFinancialAdvice
  isSyncing,          \* Settings: busy flag of the Drive upload and restore
  requests            \* the external calls that have not settled yet

vars == <<transactions, accounts, pendingAction, modalConfig, view, loaded,
          storage, now, tz, period, repPeriod, currentDate, customRange,
          selectedCategories, searchTerm, filterType, sortOrder, currentPage,
          timers, navCount, invoices, expenseCategories, incomeCategories,
          showAddModal, currentId, clientName, formData, isScanning,
          analysisPoints, isAnalyzing, loading, isSyncing, requests>>

dashVars == <<period>>
repVars == <<repPeriod, currentDate, customRange, selectedCategories, navCount>>
listVars == <<searchTerm, filterType, sortOrder, currentPage>>
\* invoices and category lists of the App
appLists == <<invoices, expenseCategories, incomeCategories>>
invoiceVars == <<currentId, clientName>>
formVars == <<showAddModal, formData, isScanning>>
requestVars == <<analysisPoints, isAnalyzing, loading, isSyncing, requests>>
\* the state of the mounted view and of the form, and the App's other lists
otherState == <<appLists, invoiceVars, formVars, requestVars>>
viewState == <<dashVars, repVars, listVars, otherState>>

(***************************************************************************)
(* App: state after construction, the load effect, persistence.            *)
(***************************************************************************)
NoAction == [type |-> "NONE", payload |-> 0]
ModalClosed == [isOpen |-> FALSE, title |-> "", isDanger |-> FALSE]
NotStored == [has |-> FALSE, val |-> <<>>]
Stored(v) == [has |-> TRUE, val |-> v]

\* localStorage without any of the five keys of the collections
EmptyStorage ==
  [accounts |-> NotStored, transactions |-> NotStored, invoices |-> NotStored,
   exp_categories |-> NotStored, inc_categories |-> NotStored]

\* the timeouts the five useDebouncedEffect calls set on mount, each holding the
\* initial [] of its collection
MountTimers ==
  [accounts |-> Stored(<<>>), transactions |-> Stored(<<>>),
   invoices |-> Stored(<<>>), exp_categories |-> Stored(<<>>),
   inc_categories |-> Stored(<<>>)]

\* an effect that leaves a timeout that is pending as it is
Schedule_KeepPending(t, k, v) == IF t[k].has THEN t ELSE [t EXCEPT ![k] = Stored(v)]

\* the effect of key k runs again for the value v: clearTimeout, then setTimeout
Schedule(t, k, v) == [t EXCEPT ![k] = Stored(v)]

\* TransactionForm's fallback category 'Umum'
Umum == <<"U", "m", "u", "m">>
\* Reports' analysisPoints while no analysis is shown (null)
NoAnalysis == <<"null">>
\* TransactionForm's useState initial value of formData
FormMount(expCats) ==
  [type |-> EXPENSE, category |-> IF expCats = <<>> THEN Umum ELSE expCats[1]]

Periods == {"TODAY", "THIS_WEEK", "THIS_MONTH", "LAST_MONTH", "THIS_YEAR", "ALL"}
ReportPeriods == {"WEEKLY", "MONTHLY", "YEARLY", "CUSTOM"}

NoDate == <<0, 0, 0>>
NoRange == [start |-> NoDate, end |-> NoDate]

\* Dashboard's useState initial value
DashboardMount == "THIS_MONTH"

\* Reports' useState initial values, taken at the instant h of mounting
ReportsMountRange(h, off) ==
  [start |-> ToISODate(NewDate(GetFullYear(h, off), GetMonth(h, off), 1, off)),
   end   |-> ToISODate(h)]

\* the default accounts of a first start
DefaultAccounts ==
  << [id |-> 1, name |-> "Kas Tunai", type |-> "CASH", initialBalance |-> 0],
     [id |-> 2, name |-> "Rekening Bank", type |-> "BANK", initialBalance |-> 0] >>

\* the demo transaction of a first start
DemoData(loadedAccounts, h) ==
  << [id |-> 1, date |-> ToISODate(h), amount |-> DemoAmount, type |-> INCOME,
      category |-> Penjualan, description |-> PenjualanMingguan,
      merchant |-> Toko,
      accountId |-> IF loadedAccounts = <<>> THEN NoAccount
                    ELSE loadedAccounts[1].id] >>

\* the category lists of a first start (the first and the last of each)
DefaultExpenseCategories == <<MakananMinuman, Lainnya>>
DefaultIncomeCategories == <<Penjualan, Lainnya>>

\* the load effect's accounts: the stored list, or the defaults when it is empty
LoadedAccounts(st) ==
  LET parsed == IF st.accounts.has THEN st.accounts.val ELSE <<>>
  IN  IF Len(parsed) = 0 THEN DefaultAccounts ELSE parsed

\* the load effect's migration: a stored transaction without accountId gets
\* the first account's id
\* a migration that gives every stored transaction the default account
Migrate_AllToDefault(loadedTx, loadedAccounts) ==
  LET defaultAccountId == IF loadedAccounts = <<>> THEN 1 ELSE loadedAccounts[1].id
  IN  [i \in DOMAIN loadedTx |-> [loadedTx[i] EXCEPT !.accountId = defaultAccountId]]

Migrate(loadedTx, loadedAccounts) ==
  LET defaultAccountId == IF loadedAccounts = <<>> THEN 1 ELSE loadedAccounts[1].id
  IN  [i \in DOMAIN loadedTx |->
         IF loadedTx[i].accountId = NoAccount
         THEN [loadedTx[i] EXCEPT !.accountId = defaultAccountId]
         ELSE loadedTx[i]]

\* the state a page load constructs, before its effects run
Constructed ==
  /\ transactions = <<>>
  /\ accounts = <<>>
  /\ pendingAction = NoAction
  /\ modalConfig = ModalClosed
  /\ view = "DASHBOARD"
  /\ loaded = FALSE
  /\ timers = MountTimers
  /\ invoices = <<>>
  /\ expenseCategories = <<>>
  /\ incomeCategories = <<>>
  /\ showAddModal = FALSE
  /\ currentId = NoInvoice
  /\ clientName = <<>>
  /\ formData = FormMount(<<>>)
  /\ isScanning = FALSE
  /\ analysisPoints = NoAnalysis
  /\ isAnalyzing = FALSE
  /\ loading = FALSE
  /\ isSyncing = FALSE
  /\ requests = {}
  /\ period = DashboardMount
  /\ repPeriod = "MONTHLY"
  /\ currentDate = 0
  /\ customRange = NoRange
  /\ selectedCategories = <<>>
  /\ searchTerm = <<>>
  /\ filterType = "ALL"
  /\ sortOrder = "NEWEST"
  /\ currentPage = 1
  /\ navCount = 0

\* the same construction as the next state of a running page
Reconstruct ==
  /\ transactions' = <<>>
  /\ accounts' = <<>>
  /\ pendingAction' = NoAction
  /\ modalConfig' = ModalClosed
  /\ view' = "DASHBOARD"
  /\ loaded' = FALSE
  /\ timers' = MountTimers
  /\ invoices' = <<>>
  /\ expenseCategories' = <<>>
  /\ incomeCategories' = <<>>
  /\ showAddModal' = FALSE
  /\ currentId' = NoInvoice
  /\ clientName' = <<>>
  /\ formData' = FormMount(<<>>)
  /\ isScanning' = FALSE
  /\ analysisPoints' = NoAnalysis
  /\ isAnalyzing' = FALSE
  /\ loading' = FALSE
  /\ isSyncing' = FALSE
  /\ requests' = {}
  /\ period' = DashboardMount
  /\ repPeriod' = "MONTHLY"
  /\ currentDate' = 0
  /\ customRange' = NoRange
  /\ selectedCategories' = <<>>
  /\ searchTerm' = <<>>
  /\ filterType' = "ALL"
  /\ sortOrder' = "NEWEST"
  /\ currentPage' = 1
  /\ navCount' = 0

\* useEffect(() => {...}, []): Load Data
Load ==
  /\ ~loaded
  /\ LET loadedAccounts == LoadedAccounts(storage)
         migrated == Migrate(storage.transactions.val, loadedAccounts)
     IN  /\ accounts' = loadedAccounts
         /\ IF storage.transactions.has
            THEN /\ transactions' = migrated
                 /\ storage' = IF migrated # storage.transactions.val
                               THEN [storage EXCEPT !.transactions = Stored(migrated)]
                               ELSE storage
            ELSE /\ transactions' = DemoData(loadedAccounts, now)
                 /\ storage' = storage
  /\ invoices' = IF storage.invoices.has THEN storage.invoices.val ELSE invoices
  /\ expenseCategories' = IF storage.exp_categories.has
                          THEN storage.exp_categories.val
                          ELSE DefaultExpenseCategories
  /\ incomeCategories' = IF storage.inc_categories.has
                         THEN storage.inc_categories.val
                         ELSE DefaultIncomeCategories
  /\ loaded' = TRUE
  /\ timers' = [accounts |-> Stored(accounts'),
                transactions |-> Stored(transactions'),
                invoices |-> IF storage.invoices.has THEN Stored(invoices')
                             ELSE timers.invoices,
                exp_categories |-> Stored(expenseCategories'),
                inc_categories |-> Stored(incomeCategories')]
  /\ UNCHANGED <<pendingAction, modalConfig, view, now, tz, dashVars, repVars,
                 listVars, invoiceVars, formVars, requestVars>>

\* useDebouncedEffect: the timeout of key k fires and writes the value the
\* effect was run for
Persist(k) ==
  /\ loaded
  /\ timers[k].has
  /\ storage' = [storage EXCEPT ![k] = Stored(timers[k].val)]
  /\ timers' = [timers EXCEPT ![k] = NotStored]
  /\ UNCHANGED <<transactions, accounts, pendingAction, modalConfig, view, loaded,
                 now, tz, viewState>>

\* the page is loaded again: every useState starts over, pending timeouts are lost
Reload ==
  /\ loaded
  /\ Reconstruct
  /\ UNCHANGED <<storage, now, tz>>

\* the clock advances by one hour
Tick ==
  /\ now' = now + 1
  /\ UNCHANGED <<transactions, accounts, pendingAction, modalConfig, view, loaded,
                 storage, timers, tz, viewState>>

\* NavItem onClick: the view mounted before is unmounted and its state is lost;
\* the confirmation modal covers the navigation while it is open
SetView(v) ==
  /\ loaded
  /\ ~modalConfig.isOpen
  /\ v # view
  /\ view' = v
  /\ period' = DashboardMount
  /\ repPeriod' = "MONTHLY"
  /\ currentDate' = IF v = "REPORTS" THEN now ELSE 0
  /\ customRange' = IF v = "REPORTS" THEN ReportsMountRange(now, tz) ELSE NoRange
  /\ selectedCategories' = <<>>
  /\ searchTerm' = <<>>
  /\ filterType' = "ALL"
  /\ sortOrder' = "NEWEST"
  /\ currentPage' = 1
  /\ navCount' = 0
  /\ currentId' = NoInvoice
  /\ clientName' = <<>>
  /\ analysisPoints' = NoAnalysis
  /\ isAnalyzing' = FALSE
  /\ loading' = FALSE
  /\ isSyncing' = FALSE
  /\ requests' = {r \in requests : r.kind = "scan"}
  /\ UNCHANGED <<transactions, accounts, pendingAction, modalConfig, loaded,
                 storage, timers, now, tz, appLists, formVars>>

(***************************************************************************)
(* App: the handlers.                                                      *)
(***************************************************************************)
\* the transaction addTransaction builds from the form's t at clock reading h
NewTransaction(t, accs, h) ==
  [id |-> h, date |-> t.date, amount |-> t.amount, type |-> t.type,
   category |-> t.category, description |-> t.description,
   merchant |-> t.merchant,
   accountId |-> IF t.accountId = NoAccount /\ Len(accs) > 0
                 THEN accs[1].id ELSE t.accountId]

\* addTransaction: the new transaction is put in front, its id is Date.now()
addTransaction(t) ==
  /\ transactions' = <<NewTransaction(t, accounts, now)>> \o transactions
  /\ timers' = Schedule(timers, "transactions", transactions')

\* TransactionForm.handleSubmit: onAddTransaction, then onClose
handleSubmit(form) ==
  /\ loaded
  /\ ~modalConfig.isOpen
  /\ Len(transactions) < MaxTx
  /\ addTransaction([form EXCEPT !.accountId =
                       IF form.accountId # NoAccount THEN form.accountId
                       ELSE IF Len(accounts) > 0 THEN accounts[1].id
                       ELSE UnknownAccount])
  /\ analysisPoints' = NoAnalysis
  /\ UNCHANGED <<accounts, pendingAction, modalConfig, view, loaded, storage, now,
                 tz, dashVars, repVars, listVars, appLists, invoiceVars, formVars,
                 isAnalyzing, loading, isSyncing, requests>>

requestDeleteTransaction(id) ==
  /\ pendingAction' = [type |-> "DELETE_TRANSACTION", payload |-> id]
  /\ modalConfig' = [isOpen |-> TRUE, title |-> "Hapus Transaksi?",
                     isDanger |-> FALSE]

requestClearAll ==
  /\ Len(transactions) # 0
  /\ pendingAction' = [type |-> "CLEAR_ALL_TRANSACTIONS", payload |-> 0]
  /\ modalConfig' = [isOpen |-> TRUE, title |-> "Hapus Semua Data?",
                     isDanger |-> TRUE]

requestReset ==
  /\ pendingAction' = [type |-> "RESET_DATA", payload |-> 0]
  /\ modalConfig' = [isOpen |-> TRUE, title |-> "Reset Aplikasi?",
                     isDanger |-> TRUE]

\* a delete that drops the first row whatever id was asked for
WithoutId_FirstRow(txs, id) == Tail(txs)

\* transactions.filter(t => t.id !== payload)
WithoutId(txs, id) == SelectSeq(txs, LAMBDA t : t.id # id)

\* executeConfirm, on the modal's confirm button
executeConfirm ==
  /\ modalConfig.isOpen
  /\ pendingAction # NoAction
  /\ IF pendingAction.type = "RESET_DATA"
     THEN \* localStorage.clear(); window.location.reload()
          /\ Reconstruct
          /\ storage' = EmptyStorage
          /\ UNCHANGED <<now, tz>>
     ELSE /\ transactions' =
               IF pendingAction.type = "DELETE_TRANSACTION"
               THEN WithoutId(transactions, pendingAction.payload)
               ELSE <<>>
          /\ timers' = Schedule(timers, "transactions", transactions')
          /\ modalConfig' = [modalConfig EXCEPT !.isOpen = FALSE]
          /\ pendingAction' = NoAction
          /\ UNCHANGED <<accounts, view, loaded, storage, now, tz, viewState>>

\* the modal's Batal button: only isOpen changes
cancelModal ==
  /\ modalConfig.isOpen
  /\ modalConfig' = [modalConfig EXCEPT !.isOpen = FALSE]
  /\ UNCHANGED <<transactions, accounts, pendingAction, view, loaded, storage,
                 timers, now, tz, viewState>>

\* an import that replaces the invoices whether the file has them or not
handleImportData_AlwaysInvoices(json) ==
  /\ loaded
  /\ view = "SETTINGS"
  /\ json.valid
  /\ transactions' = json.transactions
  /\ invoices' = json.invoices
  /\ timers' = Schedule(Schedule(timers, "transactions", json.transactions),
                        "invoices", json.invoices)
  /\ UNCHANGED <<accounts, expenseCategories, incomeCategories, pendingAction,
                 modalConfig, view, loaded, storage, now, tz, dashVars, repVars,
                 listVars, invoiceVars, formVars, requestVars>>

\* handleImportData's reader.onload on the parsed file json; a file that is not
\* JSON or has no transactions array (json.valid = FALSE) changes nothing
handleImportData(json) ==
  /\ loaded
  /\ ~modalConfig.isOpen
  /\ view = "SETTINGS"
  /\ IF json.valid
     THEN /\ transactions' = json.transactions
          /\ invoices' = IF json.hasInvoices THEN json.invoices ELSE invoices
          /\ accounts' = IF json.hasAccounts THEN json.accounts ELSE accounts
          /\ expenseCategories' = IF json.hasExpenseCategories
                                  THEN json.expenseCategories
                                  ELSE expenseCategories
          /\ incomeCategories' = IF json.hasIncomeCategories
                                 THEN json.incomeCategories
                                 ELSE incomeCategories
          /\ timers' =
               [accounts |-> IF json.hasAccounts THEN Stored(json.accounts)
                             ELSE timers.accounts,
                transactions |-> Stored(json.transactions),
                invoices |-> IF json.hasInvoices THEN Stored(json.invoices)
                             ELSE timers.invoices,
                exp_categories |-> IF json.hasExpenseCategories
                                   THEN Stored(json.expenseCategories)
                                   ELSE timers.exp_categories,
                inc_categories |-> IF json.hasIncomeCategories
                                   THEN Stored(json.incomeCategories)
                                   ELSE timers.inc_categories]
     ELSE UNCHANGED <<transactions, accounts, timers, appLists>>
  /\ UNCHANGED <<pendingAction, modalConfig, view, loaded, storage, now, tz,
                 dashVars, repVars, listVars, invoiceVars, formVars, requestVars>>

(***************************************************************************)
(* Settings: the account handlers.                                         *)
(***************************************************************************)
settingsFrame ==
  UNCHANGED <<transactions, pendingAction, modalConfig, view, loaded, storage, now,
              tz, viewState>>

\* addAccount with a non-blank name and a valid balance >= 0; the id is Date.now()
addAccount(name, balance) ==
  /\ loaded
  /\ ~modalConfig.isOpen
  /\ view = "SETTINGS"
  /\ Len(accounts) < MaxAccounts
  /\ accounts' = Append(accounts, [id |-> now, name |-> name, type |-> "CASH",
                                   initialBalance |-> balance])
  /\ timers' = Schedule(timers, "accounts", accounts')
  /\ settingsFrame

\* saveEditAccount with editingAccountId = id and a non-blank editingAccountName
saveEditAccount(id, name) ==
  /\ loaded
  /\ ~modalConfig.isOpen
  /\ view = "SETTINGS"
  /\ accounts' = [i \in DOMAIN accounts |->
                    IF accounts[i].id = id THEN [accounts[i] EXCEPT !.name = name]
                    ELSE accounts[i]]
  /\ timers' = Schedule(timers, "accounts", accounts')
  /\ settingsFrame

\* accounts.filter(a => a.id !== id)
AccountsWithout(accs, id) == SelectSeq(accs, LAMBDA a : a.id # id)

\* removeAccount on a listed account, the confirm() dialog answered yes; with
\* one account left it only alerts
removeAccount(id) ==
  /\ loaded
  /\ ~modalConfig.isOpen
  /\ view = "SETTINGS"
  /\ \E i \in DOMAIN accounts : accounts[i].id = id
  /\ Len(accounts) > 1
  /\ accounts' = AccountsWithout(accounts, id)
  /\ timers' = Schedule(timers, "accounts", accounts')
  /\ settingsFrame

\* Settings' reset button: onReset
resetClicked ==
  /\ loaded
  /\ ~modalConfig.isOpen
  /\ view = "SETTINGS"
  /\ requestReset
  /\ UNCHANGED <<transactions, accounts, view, loaded, storage, timers, now, tz,
                 viewState>>

(***************************************************************************)
(* Helpers shared by the views.                                            *)
(***************************************************************************)
\* Array.prototype.filter, keep[i] being the callback's answer for s[i]
KeepSeq(s, keep) ==
  LET F[i \in 0..Len(s)] ==
        IF i = 0 THEN <<>>
        ELSE IF keep[i] THEN Append(F[i - 1], s[i]) ELSE F[i - 1]
  IN  F[Len(s)]

Amounts(s) == [i \in DOMAIN s |-> s[i].amount]
OfType(s, ty) == SelectSeq(s, LAMBDA t : t.type = ty)
NotOfType(s, ty) == SelectSeq(s, LAMBDA t : t.type # ty)

\* the keys of a Record<string, number> filled in list order: insertion order
CategoryKeys(s) ==
  LET F[i \in 0..Len(s)] ==
        IF i = 0 THEN <<>>
        ELSE LET seen == F[i - 1]
             IN  IF \E j \in DOMAIN seen : seen[j] = s[i].category
                 THEN seen ELSE Append(seen, s[i].category)
  IN  F[Len(s)]

\* map[t.category] = (map[t.category] || 0) + t.amount, as {name, amount} entries
\* sorted by (a, b) => b.amount - a.amount
GroupByCategory(s) ==
  LET keys == CategoryKeys(s)
      entries == [k \in DOMAIN keys |->
                    [name |-> keys[k],
                     amount |-> Sum(Amounts(SelectSeq(s, LAMBDA t : t.category = keys[k])))]]
  IN  SortAsc(entries, [k \in DOMAIN entries |-> 0 - entries[k].amount])

(***************************************************************************)
(* Dashboard.                                                              *)
(***************************************************************************)
\* const day = now.getDay() || 7; if (day !== 1) now.setHours(-24 * (day - 1));
\* now.setHours(0,0,0,0)
WeekStart(h, off) ==
  LET day == IF GetDay(h, off) = 0 THEN 7 ELSE GetDay(h, off)
      monday == IF day # 1 THEN SetHours(h, (0 - 24) * (day - 1), off) ELSE h
  IN  SetHours(monday, 0, off)

\* the filter callback's answer for date string d at reference instant ref
\* (for THIS_WEEK ref is the instant the callback has moved now to)
InPeriod(d, p, ref, off) ==
  LET tDate == ParseDate(d)
      startOfDay == NewDate(GetFullYear(ref, off), GetMonth(ref, off),
                            GetDate(ref, off), off)
      lastMonth == NewDate(GetFullYear(ref, off), GetMonth(ref, off) - 1, 1, off)
  IN  CASE d = NoDate -> p = "ALL"
        [] p = "TODAY" -> tDate >= startOfDay
        [] p = "THIS_WEEK" -> tDate >= ref
        [] p = "THIS_MONTH" -> /\ GetMonth(tDate, off) = GetMonth(ref, off)
                               /\ GetFullYear(tDate, off) = GetFullYear(ref, off)
        [] p = "LAST_MONTH" -> /\ GetMonth(tDate, off) = GetMonth(lastMonth, off)
                               /\ GetFullYear(tDate, off) = GetFullYear(lastMonth, off)
        [] p = "THIS_YEAR" -> GetFullYear(tDate, off) = GetFullYear(ref, off)
        [] OTHER -> TRUE

\* the filter callback run over txs from index i on, with the shared now at h:
\* under THIS_WEEK every call first moves now to the Monday of its week
RECURSIVE FilterFrom(_, _, _, _, _)
FilterFrom(txs, i, p, h, off) ==
  IF i > Len(txs) THEN <<>>
  ELSE LET ref == IF p = "THIS_WEEK" THEN WeekStart(h, off) ELSE h
           kept == IF InPeriod(txs[i].date, p, ref, off) THEN <<txs[i]>> ELSE <<>>
       IN  kept \o FilterFrom(txs, i + 1, p, ref, off)

\* filteredTransactions
filteredTransactions(txs, p, h, off) == FilterFrom(txs, 1, p, h, off)

\* stats: whatever is not INCOME counts as expense
DashboardStats(filtered) ==
  LET income == Sum(Amounts(OfType(filtered, INCOME)))
      expense == Sum(Amounts(NotOfType(filtered, INCOME)))
  IN  [income |-> income, expense |-> expense, balance |-> income - expense,
       categoryData |-> GroupByCategory(NotOfType(filtered, INCOME))]

\* the body of accountBalances' map callback over the list txs
BalancesOver(txs, accs) ==
  [i \in DOMAIN accs |->
     LET accIncome == Sum(Amounts(SelectSeq(txs, LAMBDA t :
                            t.accountId = accs[i].id /\ t.type = INCOME)))
         accExpense == Sum(Amounts(SelectSeq(txs, LAMBDA t :
                            t.accountId = accs[i].id /\ t.type = EXPENSE)))
     IN  [id |-> accs[i].id,
          currentBalance |-> accs[i].initialBalance + accIncome - accExpense]]

\* totalAssets: the sum of the accounts' currentBalance
totalAssets(balances) ==
  Sum([i \in DOMAIN balances |-> balances[i].currentBalance])

\* NaN, the getTime() of an Invalid Date, written as a number that no date has
NaN == 0 - 1

\* chartData of Dashboard: the lists that Object.values(data).sort(by order) can
\* give. The keys are month (THIS_YEAR), month and 2-digit year (ALL), weekday
\* (TODAY, THIS_WEEK) or day of the month; two keys never share an order, so
\* the sort fixes the list, except that with an entry of order NaN the
\* comparator is inconsistent and the sort may leave the entries in any order.
chartData(filtered, p, h, off) ==
  LET isMonthlyView == p \in {"THIS_YEAR", "ALL"}
      january == GetMonth(h, off) = 0
      year == IF p = "LAST_MONTH" /\ january THEN GetFullYear(h, off) - 1
              ELSE GetFullYear(h, off)
      month == IF p = "LAST_MONTH"
               THEN (IF january THEN 11 ELSE GetMonth(h, off) - 1)
               ELSE GetMonth(h, off)
      daysInMonth == GetDate(NewDate(year, month + 1, 0, off), off)
      prefilled ==
        CASE p = "THIS_YEAR" ->
               [i \in 1..12 |->
                  [name |-> <<i - 1>>, masuk |-> 0, keluar |-> 0, order |-> i - 1]]
          [] p \in {"THIS_MONTH", "LAST_MONTH"} ->
               [i \in 1..daysInMonth |->
                  [name |-> <<GetDate(NewDate(year, month, i, off), off)>>,
                   masuk |-> 0, keluar |-> 0, order |-> i]]
          [] OTHER -> <<>>
      KeyOf(t) ==
        LET tDate == ParseDate(t.date)
        IN  CASE t.date = NoDate -> <<NaN>>
              [] p = "ALL" -> <<GetMonth(tDate, off), GetFullYear(tDate, off) % 100>>
              [] p = "THIS_YEAR" -> <<GetMonth(tDate, off)>>
              [] p \in {"THIS_WEEK", "TODAY"} -> <<GetDay(tDate, off)>>
              [] OTHER -> <<GetDate(tDate, off)>>
      OrderOf(t) ==
        LET tDate == ParseDate(t.date)
        IN  CASE t.date = NoDate -> NaN
              [] p = "ALL" -> tDate
              [] p = "THIS_YEAR" -> GetMonth(tDate, off)
              [] p \in {"THIS_WEEK", "TODAY"} ->
                   IF GetDay(tDate, off) = 0 THEN 7 ELSE GetDay(tDate, off)
              [] OTHER -> GetDate(tDate, off)
      grouped[i \in 0..Len(filtered)] ==
        IF i = 0 THEN SubSeq(prefilled, 1, Len(prefilled))
        ELSE LET g == grouped[i - 1]
                 t == filtered[i]
                 key == KeyOf(t)
                 g1 == IF \E k \in DOMAIN g : g[k].name = key THEN g
                       ELSE Append(g, [name |-> key, masuk |-> 0, keluar |-> 0,
                                       order |-> OrderOf(t)])
                 at == CHOOSE k \in DOMAIN g1 : g1[k].name = key
                 entry == IF t.type = INCOME
                          THEN [g1[at] EXCEPT !.masuk = @ + t.amount]
                          ELSE [g1[at] EXCEPT !.keluar = @ + t.amount]
             IN  SubSeq(g1, 1, at - 1) \o <<entry>> \o SubSeq(g1, at + 1, Len(g1))
      values == grouped[Len(filtered)]
  IN  IF \E k \in DOMAIN values : values[k].order = NaN
      THEN { [k \in DOMAIN values |-> values[q[k]]] :
             q \in Permutations(DOMAIN values) }
      ELSE { SortAsc(values, [k \in DOMAIN values |-> values[k].order]) }

\* a Dashboard whose balances follow the period filter like its other figures
accountBalances_OfPeriod(txs, accs) ==
  BalancesOver(filteredTransactions(txs, period, now, tz), accs)

\* a Dashboard that books what has no account of the list to the first account
accountBalances_FirstAccount(txs, accs) ==
  BalancesOver([k \in DOMAIN txs |->
                  IF \E i \in DOMAIN accs : accs[i].id = txs[k].accountId
                  THEN txs[k] ELSE [txs[k] EXCEPT !.accountId = accs[1].id]],
               accs)

\* accountBalances: always over the whole transaction list
accountBalances(txs, accs) == BalancesOver(txs, accs)

\* what the mounted Dashboard shows
DashFiltered == filteredTransactions(transactions, period, now, tz)
DashBalances == accountBalances(transactions, accounts)
DashCharts == chartData(DashFiltered, period, now, tz)

\* the period buttons: setPeriod
setPeriod(p) ==
  /\ loaded
  /\ ~modalConfig.isOpen
  /\ view = "DASHBOARD"
  /\ p # period
  /\ period' = p
  /\ UNCHANGED <<transactions, accounts, pendingAction, modalConfig, view, loaded,
                 storage, timers, now, tz, repVars, listVars, otherState>>

(***************************************************************************)
(* TransactionList.                                                        *)
(***************************************************************************)
FilterTypes == {"ALL", "INCOME", "EXPENSE"}
SortOrders == {"NEWEST", "OLDEST", "HIGHEST", "LOWEST"}

\* the filter callback of processedTransactions
MatchesSearch(t, term) ==
  \/ Includes(ToLowerCase(t.description), ToLowerCase(term))
  \/ Includes(ToLowerCase(t.category), ToLowerCase(term))
  \/ (t.merchant # <<>> /\ Includes(ToLowerCase(t.merchant), ToLowerCase(term)))
  \/ Includes(NumberToString(t.amount), term)

MatchesType(t, ft) ==
  \/ ft = "ALL"
  \/ (ft = "INCOME" /\ t.type = INCOME)
  \/ (ft = "EXPENSE" /\ t.type = EXPENSE)

\* the key k for which the sort callback returns k(a) - k(b)
SortKey(t, so) ==
  CASE so = "NEWEST" -> 0 - ParseDate(t.date)
    [] so = "OLDEST" -> ParseDate(t.date)
    [] so = "HIGHEST" -> 0 - t.amount
    [] so = "LOWEST" -> t.amount
    [] OTHER -> 0

\* processedTransactions: filter, then sort the filtered copy
processedTransactions(txs, term, ft, so) ==
  LET result == SelectSeq(txs, LAMBDA t : MatchesSearch(t, term) /\ MatchesType(t, ft))
  IN  SortAsc(result, [i \in DOMAIN result |-> SortKey(result[i], so)])

\* Math.ceil(n / ITEMS_PER_PAGE)
totalPages(n) == (n + ITEMS_PER_PAGE - 1) \div ITEMS_PER_PAGE

\* a slice that takes the page number for 0-based
paginatedTransactions_ZeroBased(processed, page) ==
  LET startIndex == page * ITEMS_PER_PAGE
  IN  Slice(processed, startIndex, startIndex + ITEMS_PER_PAGE)

\* paginatedTransactions
paginatedTransactions(processed, page) ==
  LET startIndex == (page - 1) * ITEMS_PER_PAGE
  IN  Slice(processed, startIndex, startIndex + ITEMS_PER_PAGE)

\* what the mounted TransactionList shows
Processed == processedTransactions(transactions, searchTerm, filterType, sortOrder)
TotalPages == totalPages(Len(Processed))
Paginated == paginatedTransactions(Processed, currentPage)

listFrame ==
  UNCHANGED <<transactions, accounts, pendingAction, modalConfig, view, loaded,
              storage, timers, now, tz, dashVars, repVars, otherState>>

listReady == loaded /\ ~modalConfig.isOpen /\ view = "TRANSACTIONS"

\* the search box; the effect on [searchTerm, filterType, sortOrder] resets the page
setSearchTerm(term) ==
  /\ listReady
  /\ term # searchTerm
  /\ searchTerm' = term
  /\ currentPage' = 1
  /\ UNCHANGED <<filterType, sortOrder>>
  /\ listFrame

setFilterType(ft) ==
  /\ listReady
  /\ ft # filterType
  /\ filterType' = ft
  /\ currentPage' = 1
  /\ UNCHANGED <<searchTerm, sortOrder>>
  /\ listFrame

setSortOrder(so) ==
  /\ listReady
  /\ so # sortOrder
  /\ sortOrder' = so
  /\ currentPage' = 1
  /\ UNCHANGED <<searchTerm, filterType>>
  /\ listFrame

\* the pager is rendered only when processedTransactions.length > ITEMS_PER_PAGE;
\* a button is disabled at its end of the range
prevPage ==
  /\ listReady
  /\ Len(Processed) > ITEMS_PER_PAGE
  /\ currentPage # 1
  /\ currentPage' = IF currentPage - 1 > 1 THEN currentPage - 1 ELSE 1
  /\ UNCHANGED <<searchTerm, filterType, sortOrder>>
  /\ listFrame

nextPage ==
  /\ listReady
  /\ Len(Processed) > ITEMS_PER_PAGE
  /\ currentPage # TotalPages
  /\ currentPage' = IF currentPage + 1 < TotalPages THEN currentPage + 1
                    ELSE TotalPages
  /\ UNCHANGED <<searchTerm, filterType, sortOrder>>
  /\ listFrame

\* the delete button of a displayed row: onDelete(t.id)
deleteClicked(id) ==
  /\ listReady
  /\ id \in {t.id : t \in Range(Paginated)}
  /\ requestDeleteTransaction(id)
  /\ UNCHANGED <<transactions, accounts, view, loaded, storage, timers, now, tz,
                 viewState>>

\* the clear-all button: onClearAll
clearAllClicked ==
  /\ listReady
  /\ requestClearAll
  /\ UNCHANGED <<transactions, accounts, view, loaded, storage, timers, now, tz,
                 viewState>>

(***************************************************************************)
(* Reports.                                                                *)
(***************************************************************************)
\* the filter callback of filteredData for date string d
\* startOfWeek of filteredData and getPeriodLabel: Monday 00:00 of cd's week
StartOfWeek(cd, off) ==
  LET day == IF GetDay(cd, off) = 0 THEN 7 ELSE GetDay(cd, off)
      monday == IF day # 1 THEN SetHours(cd, (0 - 24) * (day - 1), off) ELSE cd
  IN  SetHours(monday, 0, off)

InReportPeriod(d, rp, cd, range, off) ==
  LET tDate == ParseDate(d)
      startOfWeek == StartOfWeek(cd, off)
      \* setDate(getDate() + 6); setHours(23,59,59,999): the last whole hour
      endOfWeek == SetHours(SetDate(startOfWeek, GetDate(startOfWeek, off) + 6, off),
                            23, off)
  IN  CASE d = NoDate -> FALSE
        [] rp = "CUSTOM" -> StrLeq(range.start, d) /\ StrLeq(d, range.end)
        [] rp = "WEEKLY" -> tDate >= startOfWeek /\ tDate <= endOfWeek
        [] rp = "MONTHLY" -> /\ GetMonth(tDate, off) = GetMonth(cd, off)
                             /\ GetFullYear(tDate, off) = GetFullYear(cd, off)
        [] OTHER -> GetFullYear(tDate, off) = GetFullYear(cd, off)

filteredData(txs, rp, cd, range, off) ==
  KeepSeq(txs, [i \in DOMAIN txs |-> InReportPeriod(txs[i].date, rp, cd, range, off)])

\* stats
ReportStats(data) ==
  LET income == Sum(Amounts(OfType(data, INCOME)))
      expense == Sum(Amounts(NotOfType(data, INCOME)))
  IN  [income |-> income, expense |-> expense, profit |-> income - expense]

\* selectedCategories.includes(t.category) when a selection is made
BySelection(data, selected) ==
  IF Len(selected) > 0
  THEN SelectSeq(data, LAMBDA t : \E k \in DOMAIN selected : selected[k] = t.category)
  ELSE data

\* line items that take the whole period whatever is selected
accountingData_Unselected(data, selected) ==
  [incomeList |-> GroupByCategory(OfType(data, INCOME)),
   expenseList |-> GroupByCategory(NotOfType(data, INCOME))]

\* accountingData
accountingData(data, selected) ==
  LET dataToUse == BySelection(data, selected)
  IN  [incomeList |-> GroupByCategory(OfType(dataToUse, INCOME)),
       expenseList |-> GroupByCategory(NotOfType(dataToUse, INCOME))]

\* chartData of Reports: one entry per key in insertion order (YEARLY: month,
\* pre-filled; otherwise day and month, with the 2-digit year under CUSTOM),
\* sorted by the sortDate of the key's first transaction
ReportsChartData(data, rp, cd, off) ==
  LET KeyOf(t) ==
        LET dateObj == ParseDate(t.date)
        IN  CASE rp = "YEARLY" -> <<GetMonth(dateObj, off)>>
              [] rp = "CUSTOM" -> <<GetDate(dateObj, off), GetMonth(dateObj, off),
                                    GetFullYear(dateObj, off) % 100>>
              [] OTHER -> <<GetDate(dateObj, off), GetMonth(dateObj, off)>>
      SortDateOf(t) ==
        IF rp = "YEARLY"
        THEN NewDate(GetFullYear(cd, off), GetMonth(ParseDate(t.date), off), 1, off)
        ELSE ParseDate(t.date)
      prefilled ==
        IF rp = "YEARLY"
        THEN [i \in 1..12 |->
                [name |-> <<i - 1>>, income |-> 0, expense |-> 0,
                 sortDate |-> NewDate(GetFullYear(cd, off), i - 1, 1, off)]]
        ELSE <<>>
      grouped[i \in 0..Len(data)] ==
        IF i = 0 THEN SubSeq(prefilled, 1, Len(prefilled))
        ELSE LET g == grouped[i - 1]
                 t == data[i]
                 key == KeyOf(t)
                 g1 == IF \E k \in DOMAIN g : g[k].name = key THEN g
                       ELSE Append(g, [name |-> key, income |-> 0, expense |-> 0,
                                       sortDate |-> SortDateOf(t)])
                 at == CHOOSE k \in DOMAIN g1 : g1[k].name = key
                 entry == IF t.type = INCOME
                          THEN [g1[at] EXCEPT !.income = @ + t.amount]
                          ELSE [g1[at] EXCEPT !.expense = @ + t.amount]
             IN  SubSeq(g1, 1, at - 1) \o <<entry>> \o SubSeq(g1, at + 1, Len(g1))
      values == grouped[Len(data)]
  IN  SortAsc(values, [k \in DOMAIN values |-> values[k].sortDate])

\* filteredExpenseData
filteredExpenseData(data, selected) ==
  BySelection(SelectSeq(data, LAMBDA t : t.type = EXPENSE), selected)

\* categoryData of Reports: {name, value} per category, sorted by b.value - a.value
ReportsCategoryData(expenses) ==
  LET keys == CategoryKeys(expenses)
      entries == [k \in DOMAIN keys |->
                    [name |-> keys[k],
                     value |-> Sum(Amounts(SelectSeq(expenses,
                                                     LAMBDA t : t.category = keys[k])))]]
  IN  SortAsc(entries, [k \in DOMAIN entries |-> 0 - entries[k].value])

\* a top-5 list that takes the first five expenses as they come
topExpenses_Unsorted(expenses) == Slice(expenses, 0, TOP_N)

\* a top-5 list whose sort puts the later of two equal amounts first
topExpenses_LastWins(expenses) ==
  Slice(SortAsc(expenses, [k \in DOMAIN expenses |->
                             0 - (100 * expenses[k].amount + k)]), 0, TOP_N)

\* topExpenses: sort((a, b) => b.amount - a.amount).slice(0, 5)
topExpenses(expenses) ==
  Slice(SortAsc(expenses, [k \in DOMAIN expenses |-> 0 - expenses[k].amount]), 0, TOP_N)

\* a stats that follows the category selection like the line items
RepStats_OfSelection ==
  ReportStats(BySelection(filteredData(transactions, repPeriod, currentDate,
                                       customRange, tz), selectedCategories))

\* what the mounted Reports view shows
RepFiltered == filteredData(transactions, repPeriod, currentDate, customRange, tz)
RepStats == ReportStats(RepFiltered)
RepAccounting == accountingData(RepFiltered, selectedCategories)
RepChart == ReportsChartData(RepFiltered, repPeriod, currentDate, tz)
RepExpenses == filteredExpenseData(RepFiltered, selectedCategories)

\* every setter of Reports changes a dependency of the effect that clears the
\* analysis shown
repFrame ==
  /\ analysisPoints' = NoAnalysis
  /\ UNCHANGED <<transactions, accounts, pendingAction, modalConfig, view, loaded,
                 storage, timers, now, tz, dashVars, listVars, appLists,
                 invoiceVars, formVars, isAnalyzing, loading, isSyncing, requests>>

repReady == loaded /\ ~modalConfig.isOpen /\ view = "REPORTS"

\* the period buttons of Reports
setReportPeriod(p) ==
  /\ repReady
  /\ p # repPeriod
  /\ repPeriod' = p
  /\ UNCHANGED <<currentDate, customRange, selectedCategories, navCount>>
  /\ repFrame

\* navigateDate; the arrows are rendered for every period but CUSTOM
navigateDate(direction) ==
  /\ repReady
  /\ repPeriod # "CUSTOM"
  /\ navCount < MaxNav
  /\ LET step == IF direction = "next" THEN 1 ELSE 0 - 1
     IN  currentDate' =
           CASE repPeriod = "WEEKLY" ->
                  SetDate(currentDate, GetDate(currentDate, tz) + 7 * step, tz)
             [] repPeriod = "MONTHLY" ->
                  SetMonth(currentDate, GetMonth(currentDate, tz) + step, tz)
             [] OTHER ->
                  SetFullYear(currentDate, GetFullYear(currentDate, tz) + step, tz)
  /\ navCount' = navCount + 1
  /\ UNCHANGED <<repPeriod, customRange, selectedCategories>>
  /\ repFrame

\* toggleCategory
toggleCategory(cat) ==
  /\ repReady
  /\ selectedCategories' =
       IF \E k \in DOMAIN selectedCategories : selectedCategories[k] = cat
       THEN SelectSeq(selectedCategories, LAMBDA c : c # cat)
       ELSE Append(selectedCategories, cat)
  /\ UNCHANGED <<repPeriod, currentDate, customRange, navCount>>
  /\ repFrame

\* clearFilter; its button is rendered while a selection is made
clearFilter ==
  /\ repReady
  /\ Len(selectedCategories) > 0
  /\ selectedCategories' = <<>>
  /\ UNCHANGED <<repPeriod, currentDate, customRange, navCount>>
  /\ repFrame

\* the two date inputs of the CUSTOM period
setCustomStart(d) ==
  /\ repReady
  /\ repPeriod = "CUSTOM"
  /\ d # customRange.start
  /\ customRange' = [customRange EXCEPT !.start = d]
  /\ UNCHANGED <<repPeriod, currentDate, selectedCategories, navCount>>
  /\ repFrame

setCustomEnd(d) ==
  /\ repReady
  /\ repPeriod = "CUSTOM"
  /\ d # customRange.end
  /\ customRange' = [customRange EXCEPT !.end = d]
  /\ UNCHANGED <<repPeriod, currentDate, selectedCategories, navCount>>
  /\ repFrame

(***************************************************************************)
(* Specification of the App store with Dashboard and TransactionList: the  *)
(* inputs the user can give.                                               *)
(***************************************************************************)
TzOffsets == {0 - 5, 0, 7}
\* the App specification runs in Western Indonesia Time
AppTzOffsets == {7}

\* 2024-03-15T10:00Z
AppStart == HoursPerDay * DaysFromCivil(2024, 3, 15) + 10

\* what the add form can submit, up to the account chosen
FormInputs ==
  { [date |-> <<2024, 3, 15>>, amount |-> 4, type |-> EXPENSE,
     category |-> MakananMinuman, description |-> Kopi, merchant |-> Toko,
     accountId |-> NoAccount],
    [date |-> <<2024, 2, 28>>, amount |-> 9, type |-> INCOME,
     category |-> Penjualan, description |-> Penjualan, merchant |-> <<>>,
     accountId |-> NoAccount] }

\* the accounts the form's select offers, and no choice at all
AccountChoices == {accounts[i].id : i \in DOMAIN accounts} \cup {NoAccount}

\* a first start; a browser that holds two accounts and two transactions, one
\* stored before accounts existed and one of an account removed since; and the
\* same browser after all its transactions were cleared
FreshStorage == EmptyStorage
UsedStorage ==
  [invoices |-> NotStored, exp_categories |-> NotStored,
   inc_categories |-> NotStored,
   accounts |-> Stored(
     << [id |-> 3, name |-> "Dompet", type |-> "CASH", initialBalance |-> 100],
        [id |-> 5, name |-> "Bank", type |-> "BANK", initialBalance |-> 20] >>),
   transactions |-> Stored(
     << [id |-> 7, date |-> <<2024, 3, 14>>, amount |-> 3, type |-> EXPENSE,
         category |-> MakananMinuman, description |-> Kopi, merchant |-> <<>>,
         accountId |-> NoAccount],
        [id |-> 6, date |-> <<2024, 2, 10>>, amount |-> 5, type |-> INCOME,
         category |-> Penjualan, description |-> Penjualan, merchant |-> Toko,
         accountId |-> 9] >>)]

EmptiedStorage == [UsedStorage EXCEPT !.transactions = Stored(<<>>)]

Init ==
  /\ Constructed
  /\ tz \in AppTzOffsets
  /\ now = AppStart
  /\ storage \in {FreshStorage, UsedStorage, EmptiedStorage}

Next ==
  \/ Load
  \/ (now < AppStart + MaxTicks /\ Tick)
  \/ \E v \in {"DASHBOARD", "TRANSACTIONS"} : SetView(v)
  \/ \E f \in FormInputs, a \in AccountChoices :
       handleSubmit([f EXCEPT !.accountId = a])
  \/ \E p \in Periods : setPeriod(p)
  \/ \E i \in DOMAIN transactions : deleteClicked(transactions[i].id)
  \/ clearAllClicked
  \/ executeConfirm
  \/ cancelModal

Spec == Init /\ [][Next]_vars

(***************************************************************************)
(* Specification of the accounts: Settings, backup import, persistence and *)
(* reload.                                                                 *)
(***************************************************************************)
\* a file that cannot be read as a backup, and backups with and without an
\* accounts array
NotABackup ==
  [valid |-> FALSE, transactions |-> <<>>, hasAccounts |-> FALSE, accounts |-> <<>>,
   hasInvoices |-> FALSE, invoices |-> <<>>,
   hasExpenseCategories |-> FALSE, expenseCategories |-> <<>>,
   hasIncomeCategories |-> FALSE, incomeCategories |-> <<>>]
BackupFiles ==
  { NotABackup,
    [valid |-> TRUE, transactions |-> <<>>, hasAccounts |-> FALSE, accounts |-> <<>>,
   hasInvoices |-> FALSE, invoices |-> <<>>,
   hasExpenseCategories |-> FALSE, expenseCategories |-> <<>>,
   hasIncomeCategories |-> FALSE, incomeCategories |-> <<>>],
    [valid |-> TRUE, transactions |-> UsedStorage.transactions.val,
     hasAccounts |-> TRUE, accounts |-> UsedStorage.accounts.val,
     hasInvoices |-> FALSE, invoices |-> <<>>,
     hasExpenseCategories |-> FALSE, expenseCategories |-> <<>>,
     hasIncomeCategories |-> FALSE, incomeCategories |-> <<>>],
    [valid |-> TRUE, transactions |-> <<>>, hasAccounts |-> TRUE, accounts |-> <<>>,
     hasInvoices |-> FALSE, invoices |-> <<>>,
     hasExpenseCategories |-> FALSE, expenseCategories |-> <<>>,
     hasIncomeCategories |-> FALSE, incomeCategories |-> <<>>] }

AccountNames == {"OVO"}
AccountBalances == {50}

NextSettings ==
  \/ Load
  \/ \E v \in {"DASHBOARD", "SETTINGS", "TRANSACTIONS"} : SetView(v)
  \/ \E i \in DOMAIN transactions : deleteClicked(transactions[i].id)
  \/ clearAllClicked
  \/ \E name \in AccountNames, balance \in AccountBalances : addAccount(name, balance)
  \/ \E i \in DOMAIN accounts, name \in AccountNames :
       saveEditAccount(accounts[i].id, name)
  \/ \E i \in DOMAIN accounts : removeAccount(accounts[i].id)
  \/ \E json \in BackupFiles : handleImportData(json)
  \/ resetClicked
  \/ executeConfirm
  \/ cancelModal
  \/ Persist("accounts")
  \/ Reload

SpecSettings == Init /\ [][NextSettings]_vars

(***************************************************************************)
(* Specification of TransactionList over an empty stored list and one of   *)
(* MaxStored transactions, of which the first or the last row shown is     *)
(* deleted up to MaxDeletes times.                                         *)
(***************************************************************************)
\* the i-th stored transaction: three dates, five amounts, one expense in three
StoredTx(i) ==
  [id |-> 100 + i,
   date |-> <<2024, 3, 10 + (i % 3)>>,
   amount |-> 10 + ((7 * i) % 5),
   type |-> IF i % 3 = 0 THEN EXPENSE ELSE INCOME,
   category |-> IF i % 3 = 0 THEN MakananMinuman ELSE Penjualan,
   description |-> IF i % 2 = 0 THEN Kopi ELSE Penjualan,
   merchant |-> IF i % 4 = 0 THEN Toko ELSE <<>>,
   accountId |-> 1]

StoredList(n) == [i \in 1..n |-> StoredTx(i)]

SearchTerms == {<<>>, <<"K", "o">>}

InitList ==
  /\ Constructed
  /\ tz \in AppTzOffsets
  /\ now = AppStart
  /\ \E n \in {0, MaxStored} :
       storage = [EmptyStorage EXCEPT !.transactions = Stored(StoredList(n))]

\* deletions confirmed or requested since the list was loaded
Deleted == Len(storage.transactions.val) - Len(transactions)

NextList ==
  \/ Load
  \/ \E v \in {"DASHBOARD", "TRANSACTIONS"} : SetView(v)
  \/ \E term \in SearchTerms : setSearchTerm(term)
  \/ \E ft \in FilterTypes : setFilterType(ft)
  \/ \E so \in SortOrders : setSortOrder(so)
  \/ prevPage
  \/ nextPage
  \/ /\ Deleted < MaxDeletes
     /\ LET page == Paginated
        IN  /\ page # <<>>
            /\ \E t \in {page[1], page[Len(page)]} : deleteClicked(t.id)
  \/ clearAllClicked
  \/ executeConfirm
  \/ cancelModal

SpecList == InitList /\ [][NextList]_vars

(***************************************************************************)
(* Specification of the date filters of Dashboard and Reports: every time  *)
(* zone of TzOffsets, reference days at month ends, on a Sunday and on a   *)
(* Monday, and one stored transaction on each day next to a boundary.      *)
(***************************************************************************)
StartDays ==
  { <<2024, 1, 10>>, <<2024, 1, 31>>, <<2024, 3, 31>>, <<2023, 1, 29>>,
    <<2024, 3, 18>>, <<2024, 12, 31>> }

\* the day numbers next to the day, week and month boundaries around a day
NearbyDays(start) ==
  LET D == DaysFromCivil(start[1], start[2], start[3])
      monday == D - ((D + 3) % 7)
      thisMonth == MakeDay(start[1], start[2] - 1, 1)
      lastMonth == MakeDay(start[1], start[2] - 2, 1)
      nextMonth == MakeDay(start[1], start[2], 1)
  IN  << D - 1, D, D + 1,
         monday - 1, monday, monday + 6, monday + 7,
         lastMonth - 1, lastMonth, thisMonth - 1, thisMonth,
         nextMonth - 1, nextMonth >>

DatedTx(i, date) ==
  [id |-> 200 + i, date |-> date, amount |-> i,
   type |-> IF i % 2 = 0 THEN INCOME ELSE EXPENSE,
   category |-> IF i % 2 = 0 THEN Penjualan ELSE MakananMinuman,
   description |-> Kopi, merchant |-> <<>>, accountId |-> 1]

StoredAround(start) ==
  LET days == NearbyDays(start)
  IN  [i \in DOMAIN days |-> DatedTx(i, CivilFromDays(days[i]))]

\* the page is opened at 10:00 local time of a start day
InitDates ==
  /\ Constructed
  /\ tz \in TzOffsets
  /\ \E start \in StartDays :
       /\ now = NewDate(start[1], start[2] - 1, start[3], tz) + 10
       /\ storage = [EmptyStorage EXCEPT !.transactions = Stored(StoredAround(start))]

NextDates ==
  \/ Load
  \/ \E v \in {"DASHBOARD", "REPORTS"} : SetView(v)
  \/ \E p \in Periods : setPeriod(p)
  \/ \E p \in {"WEEKLY", "MONTHLY", "YEARLY"} : setReportPeriod(p)
  \/ \E direction \in {"prev", "next"} : navigateDate(direction)

SpecDates == InitDates /\ [][NextDates]_vars

(***************************************************************************)
(* Specification of the Reports view over lists of several categories.     *)
(***************************************************************************)
\* the categories toggled; Penjualan stays a category never selected
ReportCategories == {MakananMinuman, Lainnya}

ReportTx(i, date, amount, type, category) ==
  [id |-> 300 + i, date |-> date, amount |-> amount, type |-> type,
   category |-> category, description |-> Kopi, merchant |-> <<>>,
   accountId |-> 1]

\* March 2024 with two income and two expense categories, and one February sale
MixedList ==
  << ReportTx(1, <<2024, 3, 1>>, 50, INCOME, Penjualan),
     ReportTx(2, <<2024, 3, 12>>, 7, EXPENSE, MakananMinuman),
     ReportTx(3, <<2024, 3, 15>>, 20, INCOME, Lainnya),
     ReportTx(4, <<2024, 3, 15>>, 4, EXPENSE, Lainnya),
     ReportTx(5, <<2024, 2, 20>>, 30, INCOME, Penjualan),
     ReportTx(6, <<2024, 3, 14>>, 3, EXPENSE, MakananMinuman) >>

ReportLists == {<<>>, SubSeq(MixedList, 1, 2), MixedList}

CustomDates == {<<2024, 3, 1>>, <<2024, 3, 14>>}

InitReports ==
  /\ Constructed
  /\ tz \in AppTzOffsets
  /\ now = AppStart
  /\ \E list \in ReportLists :
       storage = [EmptyStorage EXCEPT !.transactions = Stored(list)]

NextReports ==
  \/ Load
  \/ \E v \in {"DASHBOARD", "REPORTS"} : SetView(v)
  \/ \E p \in ReportPeriods : setReportPeriod(p)
  \/ \E direction \in {"prev", "next"} : navigateDate(direction)
  \/ \E cat \in ReportCategories : toggleCategory(cat)
  \/ clearFilter
  \/ \E d \in CustomDates : setCustomStart(d)
  \/ \E d \in CustomDates : setCustomEnd(d)

SpecReports == InitReports /\ [][NextReports]_vars

(***************************************************************************)
(* The arrays of one render. A component gets the App's arrays by          *)
(* reference: the arrays are numbered, 1 the transactions and 2 the        *)
(* accounts, and filter and slice make a new array where sort reorders the *)
(* array it is called on.                                                  *)
(***************************************************************************)
RenderProps(txs, accs) == <<txs, accs>>

\* a filter that also narrows the array it is called on
ArrayFilter_InPlace(arrays, ref, keep) ==
  Append([arrays EXCEPT ![ref] = KeepSeq(arrays[ref], keep)],
         KeepSeq(arrays[ref], keep))

\* Array.prototype.filter: the result is the new, last array
ArrayFilter(arrays, ref, keep) == Append(arrays, KeepSeq(arrays[ref], keep))

\* Array.prototype.sort: in place
ArraySort(arrays, ref, keys) == [arrays EXCEPT ![ref] = SortAsc(arrays[ref], keys)]

\* Array.prototype.slice: the result is the new, last array
ArraySlice(arrays, ref, start, end) == Append(arrays, Slice(arrays[ref], start, end))

\* TransactionList: processedTransactions is array 3, paginatedTransactions 4
ListRender(txs, accs, term, ft, so, page) ==
  LET filtered == ArrayFilter(RenderProps(txs, accs), 1,
                    [i \in DOMAIN txs |->
                       MatchesSearch(txs[i], term) /\ MatchesType(txs[i], ft)])
      result == filtered[3]
      sorted == ArraySort(filtered, 3,
                          [i \in DOMAIN result |-> SortKey(result[i], so)])
      startIndex == (page - 1) * ITEMS_PER_PAGE
  IN  ArraySlice(sorted, 3, startIndex, startIndex + ITEMS_PER_PAGE)

\* Reports: filteredData is array 3, filteredExpenseData the last but one and
\* topExpenses the last
ReportsRender(txs, accs, rp, cd, range, selected, off) ==
  LET inPeriod == ArrayFilter(RenderProps(txs, accs), 1,
                    [i \in DOMAIN txs |->
                       InReportPeriod(txs[i].date, rp, cd, range, off)])
      data == inPeriod[3]
      expenses == ArrayFilter(inPeriod, 3,
                              [i \in DOMAIN data |-> data[i].type = EXPENSE])
      chosen == IF Len(selected) > 0
                THEN ArrayFilter(expenses, 4,
                                 [i \in DOMAIN expenses[4] |->
                                    \E k \in DOMAIN selected :
                                      selected[k] = expenses[4][i].category])
                ELSE expenses
      last == Len(chosen)
      sorted == ArraySort(chosen, last,
                          [i \in DOMAIN chosen[last] |-> 0 - chosen[last][i].amount])
  IN  ArraySlice(sorted, last, 0, TOP_N)

\* Dashboard: filteredTransactions is array 3; now moves to Monday 00:00 at
\* the first transaction looked at under THIS_WEEK
DashboardRender(txs, accs, p, h, off) ==
  LET nowAt[i \in 0..Len(txs)] ==
        IF i = 0 THEN h
        ELSE LET before == nowAt[i - 1]
             IN  IF p = "THIS_WEEK" THEN WeekStart(before, off) ELSE before
  IN  ArrayFilter(RenderProps(txs, accs), 1,
                  [i \in DOMAIN txs |-> InPeriod(txs[i].date, p, nowAt[i], off)])

(***************************************************************************)
(* Specification of the category distributions and the top-5 list over one *)
(* month's transactions stored in different orders.                        *)
(***************************************************************************)
\* six expenses with equal amounts among them, and one sale
OrderBase ==
  << ReportTx(1, <<2024, 3, 2>>, 7, EXPENSE, MakananMinuman),
     ReportTx(2, <<2024, 3, 5>>, 7, EXPENSE, Lainnya),
     ReportTx(3, <<2024, 3, 5>>, 3, EXPENSE, MakananMinuman),
     ReportTx(4, <<2024, 3, 9>>, 9, EXPENSE, Lainnya),
     ReportTx(5, <<2024, 3, 11>>, 3, EXPENSE, Lainnya),
     ReportTx(6, <<2024, 3, 14>>, 5, EXPENSE, MakananMinuman),
     ReportTx(7, <<2024, 3, 15>>, 50, INCOME, Penjualan) >>

\* the base list with its first four transactions permuted, forward or reversed
Orderings ==
  { [i \in 1..7 |->
       LET j == IF reversed THEN 8 - i ELSE i
       IN  IF j <= 4 THEN OrderBase[p[j]] ELSE OrderBase[j]] :
    p \in Permutations(1..4), reversed \in BOOLEAN }

InitOrder ==
  /\ Constructed
  /\ tz \in AppTzOffsets
  /\ now = AppStart
  /\ \E list \in Orderings :
       storage = [EmptyStorage EXCEPT !.transactions = Stored(list)]

NextOrder ==
  \/ Load
  \/ \E v \in {"DASHBOARD", "REPORTS", "TRANSACTIONS"} : SetView(v)
  \/ \E p \in Periods : setPeriod(p)
  \/ \E p \in {"WEEKLY", "MONTHLY", "YEARLY"} : setReportPeriod(p)
  \/ toggleCategory(MakananMinuman)
  \/ \E ft \in FilterTypes : setFilterType(ft)
  \/ \E so \in SortOrders : setSortOrder(so)

SpecOrder == InitOrder /\ [][NextOrder]_vars

(***************************************************************************)
(* Specification of Dashboard and Reports over transactions that lack a    *)
(* date or an account: stored ones, ones of a backup, and ones whose       *)
(* account is removed in Settings.                                         *)
(***************************************************************************)
\* one transaction without a date, one of an account that does not exist, one
\* without accountId, next to a whole one
OddTransactions ==
  << [id |-> 11, date |-> <<2024, 3, 14>>, amount |-> 3, type |-> EXPENSE,
      category |-> MakananMinuman, description |-> Kopi, merchant |-> <<>>,
      accountId |-> 3],
     [id |-> 12, date |-> NoDate, amount |-> 8, type |-> INCOME,
      category |-> Penjualan, description |-> Penjualan, merchant |-> Toko,
      accountId |-> 5],
     [id |-> 13, date |-> <<2024, 2, 10>>, amount |-> 5, type |-> INCOME,
      category |-> Penjualan, description |-> Penjualan, merchant |-> Toko,
      accountId |-> UnknownAccount],
     [id |-> 14, date |-> <<2024, 3, 15>>, amount |-> 2, type |-> EXPENSE,
      category |-> Lainnya, description |-> Kopi, merchant |-> <<>>,
      accountId |-> NoAccount] >>

OddStorage == [UsedStorage EXCEPT !.transactions = Stored(OddTransactions)]
OddBackup ==
  [valid |-> TRUE, transactions |-> OddTransactions,
   hasAccounts |-> FALSE, accounts |-> <<>>,
   hasInvoices |-> FALSE, invoices |-> <<>>,
   hasExpenseCategories |-> FALSE, expenseCategories |-> <<>>,
   hasIncomeCategories |-> FALSE, incomeCategories |-> <<>>]

InitData ==
  /\ Constructed
  /\ tz \in AppTzOffsets
  /\ now = AppStart
  /\ storage \in {FreshStorage, OddStorage}

NextData ==
  \/ Load
  \/ \E v \in {"DASHBOARD", "REPORTS", "SETTINGS"} : SetView(v)
  \/ \E p \in Periods : setPeriod(p)
  \/ \E p \in ReportPeriods : setReportPeriod(p)
  \/ \E i \in DOMAIN accounts : removeAccount(accounts[i].id)
  \/ handleImportData(OddBackup)

SpecData == InitData /\ [][NextData]_vars

(***************************************************************************)
(* C1: on the Dashboard, under every period, each account's currentBalance *)
(* is its initialBalance plus the amounts of all INCOME transactions of    *)
(* the account minus the amounts of all its EXPENSE transactions, over the *)
(* whole transaction list.                                                 *)
(***************************************************************************)
\* the sum of the amounts of the transactions at the positions in S
RECURSIVE AmountAt(_)
AmountAt(S) ==
  IF S = {} THEN 0
  ELSE LET i == CHOOSE k \in S : TRUE
       IN  transactions[i].amount + AmountAt(S \ {i})

PositionsOf(id, ty) ==
  {i \in DOMAIN transactions :
     transactions[i].accountId = id /\ transactions[i].type = ty}

C1_BalanceIsAllTime ==
  (loaded /\ view = "DASHBOARD") =>
    \A i \in DOMAIN accounts :
      DashBalances[i].currentBalance =
        accounts[i].initialBalance + AmountAt(PositionsOf(accounts[i].id, INCOME))
          - AmountAt(PositionsOf(accounts[i].id, EXPENSE))

\* a period that leaves transactions out, and an account with income and expense
C1_Witness ==
  /\ loaded /\ view = "DASHBOARD" /\ period = "TODAY"
  /\ Len(DashFiltered) < Len(transactions)
  /\ \E i \in DOMAIN accounts :
       /\ PositionsOf(accounts[i].id, INCOME) # {}
       /\ PositionsOf(accounts[i].id, EXPENSE) # {}

(***************************************************************************)
(* C4: no two transactions of the list share an id.                        *)
(***************************************************************************)
C4_IdsUnique ==
  \A i, j \in DOMAIN transactions :
    i # j => transactions[i].id # transactions[j].id

(***************************************************************************)
(* C3: once the load effect has run, the accounts list is never empty.     *)
(***************************************************************************)
C3_AccountsNonEmpty == loaded => Len(accounts) > 0

(***************************************************************************)
(* C5: while the filtered list of TransactionList is not empty, currentPage *)
(* lies in 1..totalPages and the displayed page is not empty.              *)
(***************************************************************************)
C5_PageInRange ==
  (loaded /\ view = "TRANSACTIONS" /\ Len(Processed) > 0) =>
    /\ currentPage >= 1
    /\ currentPage <= TotalPages
    /\ Paginated # <<>>

(***************************************************************************)
(* C6: totalPages is the count divided by 10 and rounded up, page p holds  *)
(* the items (p-1)*10 .. p*10-1 of the sorted list, the pages 1..totalPages *)
(* put one behind the other are the sorted list, and totalPages is 0 only  *)
(* for the empty list.                                                     *)
(***************************************************************************)
\* the pages 1..n of list put one behind the other
RECURSIVE PagesUpTo(_, _)
PagesUpTo(list, n) ==
  IF n = 0 THEN <<>>
  ELSE PagesUpTo(list, n - 1) \o paginatedTransactions(list, n)

C6_PagesPartitionList ==
  (loaded /\ view = "TRANSACTIONS") =>
    LET list == Processed
        n == Len(list)
        pages == totalPages(n)
    IN  /\ pages * 10 >= n
        /\ pages * 10 < n + 10
        /\ (pages = 0 <=> n = 0)
        /\ \A p \in 1..pages :
             LET page == paginatedTransactions(list, p)
                 first == (p - 1) * 10
                 size == IF n - first < 10 THEN n - first ELSE 10
             IN  /\ Len(page) = size
                 /\ \A k \in 1..size : page[k] = list[first + k]
        /\ PagesUpTo(list, pages) = list
        /\ Paginated = paginatedTransactions(list, currentPage)

\* two pages, the second one partly filled and on display
C6_Witness ==
  /\ loaded /\ view = "TRANSACTIONS"
  /\ Len(Processed) > 10
  /\ Len(Processed) < 20
  /\ currentPage = 2
  /\ Len(Paginated) = Len(Processed) - 10

(***************************************************************************)
(* C2: in Reports stats.profit is stats.income minus stats.expense, and    *)
(* the net of the accounting line items (incomeList amounts minus          *)
(* expenseList amounts) equals stats.profit for every category selection.  *)
(***************************************************************************)
LineItemsNet(acc) ==
  Sum([i \in DOMAIN acc.incomeList |-> acc.incomeList[i].amount])
    - Sum([i \in DOMAIN acc.expenseList |-> acc.expenseList[i].amount])

C2_NetEqualsProfit ==
  (loaded /\ view = "REPORTS") =>
    /\ RepStats.profit = RepStats.income - RepStats.expense
    /\ LineItemsNet(RepAccounting) = RepStats.profit

(***************************************************************************)
(* C2 as the code has it: stats.profit is stats.income minus stats.expense *)
(* over the whole period; the net of the accounting line items is the      *)
(* income minus the expense of the period's transactions of the selected   *)
(* categories, which is stats.profit when no category is selected.         *)
(***************************************************************************)
SelectedOf(data) ==
  IF selectedCategories = <<>> THEN data
  ELSE SelectSeq(data, LAMBDA t : t.category \in Range(selectedCategories))

C2_NetIsProfitOfSelection ==
  (loaded /\ view = "REPORTS") =>
    LET data == RepFiltered
        stats == ReportStats(data)
        net == LineItemsNet(accountingData(data, selectedCategories))
        chosen == SelectedOf(data)
    IN  /\ stats.profit = stats.income - stats.expense
        /\ stats.income = Sum(Amounts(OfType(data, INCOME)))
        /\ net = Sum(Amounts(OfType(chosen, INCOME)))
                   - Sum(Amounts(NotOfType(chosen, INCOME)))
        /\ (selectedCategories = <<>> => net = stats.profit)

\* a selection that leaves part of the period out of the line items
C2_Witness ==
  /\ loaded /\ view = "REPORTS"
  /\ selectedCategories # <<>>
  /\ Len(SelectedOf(RepFiltered)) > 0
  /\ Len(SelectedOf(RepFiltered)) < Len(RepFiltered)
  /\ LineItemsNet(RepAccounting) # RepStats.profit

(***************************************************************************)
(* C7: under the Dashboard period TODAY the filtered transactions are      *)
(* exactly those dated on the current day; earlier and later days are out. *)
(***************************************************************************)
\* the calendar date of the instant h on the user's clock
LocalDate(h, off) == CivilFromDays((h + off) \div 24)

C7_TodayIsExactlyToday ==
  (loaded /\ view = "DASHBOARD" /\ period = "TODAY") =>
    DashFiltered = SelectSeq(transactions, LAMBDA t : t.date = LocalDate(now, tz))

(***************************************************************************)
(* C8: under Dashboard THIS_WEEK and under Reports WEEKLY the filtered     *)
(* transactions are exactly those dated from the Monday to the Sunday of   *)
(* the week of the reference date.                                         *)
(***************************************************************************)
DayNumber(date) == DaysFromCivil(date[1], date[2], date[3])

\* the day number of the Monday on or before day number D
MondayOf(D) == D - ((D + 3) % 7)

InWeekOf(date, ref) ==
  LET monday == MondayOf(DayNumber(ref))
  IN  DayNumber(date) >= monday /\ DayNumber(date) <= monday + 6

C8_WeekIsMondayToSunday ==
  /\ (loaded /\ view = "DASHBOARD" /\ period = "THIS_WEEK") =>
       DashFiltered =
         SelectSeq(transactions, LAMBDA t : InWeekOf(t.date, LocalDate(now, tz)))
  /\ (loaded /\ view = "REPORTS" /\ repPeriod = "WEEKLY") =>
       RepFiltered =
         SelectSeq(transactions, LAMBDA t : InWeekOf(t.date, LocalDate(currentDate, tz)))

(***************************************************************************)
(* C9: Dashboard LAST_MONTH selects exactly the transactions dated in the  *)
(* calendar month before the reference month, December of the year before  *)
(* for a reference date in January.                                        *)
(***************************************************************************)
MonthNumber(date) == 12 * date[1] + date[2] - 1

C9_LastMonthIsPreviousMonth ==
  (loaded /\ view = "DASHBOARD" /\ period = "LAST_MONTH") =>
    DashFiltered =
      SelectSeq(transactions, LAMBDA t :
                  MonthNumber(t.date) = MonthNumber(LocalDate(now, tz)) - 1)

(***************************************************************************)
(* C10: under MONTHLY in Reports every navigateDate step moves currentDate *)
(* to the calendar month next to the one it was in, from every day of the  *)
(* month, so that no month is skipped or shown twice.                      *)
(***************************************************************************)
C10_MonthlyStepIsOneMonth ==
  [][(/\ view = "REPORTS" /\ view' = "REPORTS"
      /\ repPeriod = "MONTHLY" /\ repPeriod' = "MONTHLY"
      /\ currentDate' # currentDate)
     => LET before == MonthNumber(LocalDate(currentDate, tz))
            after == MonthNumber(LocalDate(currentDate', tz))
        IN  after = before + 1 \/ after = before - 1]_vars

(***************************************************************************)
(* C11: under WEEKLY in Reports every navigateDate step moves currentDate  *)
(* by exactly 7 days forward or backward, and the window shown before and  *)
(* after the step starts on a Monday, the two Mondays 7 days apart.        *)
(***************************************************************************)
\* the day number on which the WEEKLY window of the instant cd starts
WindowStartDay(cd) == DayNumber(LocalDate(StartOfWeek(cd, tz), tz))

C11_WeeklyStepIsSevenDays ==
  [][(/\ view = "REPORTS" /\ view' = "REPORTS"
      /\ repPeriod = "WEEKLY" /\ repPeriod' = "WEEKLY"
      /\ currentDate' # currentDate)
     => /\ (currentDate' = currentDate + 7 * 24 \/ currentDate' = currentDate - 7 * 24)
        /\ MondayOf(WindowStartDay(currentDate)) = WindowStartDay(currentDate)
        /\ MondayOf(WindowStartDay(currentDate')) = WindowStartDay(currentDate')
        /\ (\/ WindowStartDay(currentDate') = WindowStartDay(currentDate) + 7
            \/ WindowStartDay(currentDate') = WindowStartDay(currentDate) - 7)
        /\ WindowStartDay(currentDate') <= DayNumber(LocalDate(currentDate', tz))
        /\ DayNumber(LocalDate(currentDate', tz)) <= WindowStartDay(currentDate') + 6]_vars

\* two steps back from a Wednesday in January, across the turn of the year
C11_Witness ==
  /\ loaded /\ view = "REPORTS" /\ repPeriod = "WEEKLY"
  /\ navCount = 2
  /\ currentDate = now - 14 * 24
  /\ MondayOf(DayNumber(LocalDate(now, tz))) = DayNumber(LocalDate(now, tz)) - 2
  /\ LocalDate(currentDate, tz)[1] = LocalDate(now, tz)[1] - 1

(***************************************************************************)
(* C12: toggling or clearing the category selection of Reports changes     *)
(* neither stats nor the time series chartData: a selection step leaves    *)
(* the list, the period and the dates alone, and under every selection     *)
(* stats and the chart's totals are those of all the period's              *)
(* transactions; with a selection the accounting line items, the expense   *)
(* distribution and the top-5 list hold the period's transactions of the   *)
(* selected categories only, and without a selection those of every        *)
(* category.                                                               *)
(***************************************************************************)
\* the categories of the transactions of list that are of type ty (or not)
CategoriesOf(list, ty, same) ==
  {list[i].category : i \in {j \in DOMAIN list : (list[j].type = ty) = same}}

\* the sum of the amounts of list's transactions of a category in cats that
\* are of type ty (or not)
RECURSIVE CategoryTotal(_, _, _, _)
CategoryTotal(list, cats, ty, same) ==
  IF list = <<>> THEN 0
  ELSE (IF list[1].category \in cats /\ ((list[1].type = ty) = same)
        THEN list[1].amount ELSE 0) + CategoryTotal(Tail(list), cats, ty, same)

C12_SelectionNarrowsDetailOnly ==
  /\ [](loaded /\ view = "REPORTS" =>
          LET data == RepFiltered
              every == {data[i].category : i \in DOMAIN data}
              wanted == IF selectedCategories = <<>> THEN every
                        ELSE Range(selectedCategories)
              stats == RepStats
              chart == RepChart
              acc == accountingData(data, selectedCategories)
              expenses == filteredExpenseData(data, selectedCategories)
              dist == ReportsCategoryData(expenses)
              top == topExpenses(expenses)
          IN  /\ stats.income = CategoryTotal(data, every, INCOME, TRUE)
              /\ stats.expense = CategoryTotal(data, every, INCOME, FALSE)
              /\ stats.profit = stats.income - stats.expense
              /\ Sum([k \in DOMAIN chart |-> chart[k].income]) = stats.income
              /\ Sum([k \in DOMAIN chart |-> chart[k].expense]) = stats.expense
              /\ {acc.incomeList[k].name : k \in DOMAIN acc.incomeList}
                   = CategoriesOf(data, INCOME, TRUE) \cap wanted
              /\ {acc.expenseList[k].name : k \in DOMAIN acc.expenseList}
                   = CategoriesOf(data, INCOME, FALSE) \cap wanted
              /\ \A k \in DOMAIN acc.incomeList :
                   acc.incomeList[k].amount
                     = CategoryTotal(data, {acc.incomeList[k].name}, INCOME, TRUE)
              /\ \A k \in DOMAIN acc.expenseList :
                   acc.expenseList[k].amount
                     = CategoryTotal(data, {acc.expenseList[k].name}, INCOME, FALSE)
              /\ {dist[k].name : k \in DOMAIN dist}
                   = CategoriesOf(data, EXPENSE, TRUE) \cap wanted
              /\ \A k \in DOMAIN dist :
                   dist[k].value = CategoryTotal(data, {dist[k].name}, EXPENSE, TRUE)
              /\ \A k \in DOMAIN top :
                   /\ top[k].category \in wanted
                   /\ top[k].type = EXPENSE
                   /\ \E i \in DOMAIN data : data[i] = top[k])
  /\ [][(/\ view = "REPORTS" /\ view' = "REPORTS"
         /\ selectedCategories' # selectedCategories)
        => UNCHANGED <<transactions, repPeriod, currentDate, customRange, tz>>]_vars

\* a selection that leaves expenses of the period out, over a chart of several days
C12_Witness ==
  /\ loaded /\ view = "REPORTS"
  /\ selectedCategories # <<>>
  /\ Len(RepExpenses) > 0
  /\ \E i \in DOMAIN RepFiltered :
       /\ RepFiltered[i].type = EXPENSE
       /\ RepFiltered[i].category \notin Range(selectedCategories)
  /\ Len(RepChart) > 2
  /\ RepStats.expense > Sum(Amounts(RepExpenses))

(***************************************************************************)
(* C13: for two orderings of one transaction list, the expense category    *)
(* distributions of Dashboard and Reports have the same sum per category   *)
(* and the same sequence of sums, and the top-5 list of Reports has the    *)
(* same sequence of amounts; entries may change places among equal sums.   *)
(***************************************************************************)
\* the list in the order of its ids
ById(list) == SortAsc(list, [i \in DOMAIN list |-> list[i].id])

C13_DistributionsIgnoreOrder ==
  LET other == ById(transactions)
  IN  /\ (loaded /\ view = "DASHBOARD") =>
           LET mine == DashboardStats(DashFiltered).categoryData
               theirs == DashboardStats(filteredTransactions(other, period, now, tz)).categoryData
           IN  /\ Range(mine) = Range(theirs)
               /\ [k \in DOMAIN mine |-> mine[k].amount]
                    = [k \in DOMAIN theirs |-> theirs[k].amount]
      /\ (loaded /\ view = "REPORTS") =>
           LET expenses == filteredExpenseData(
                             filteredData(other, repPeriod, currentDate, customRange, tz),
                             selectedCategories)
               mine == ReportsCategoryData(RepExpenses)
               theirs == ReportsCategoryData(expenses)
               top == topExpenses(RepExpenses)
               theirTop == topExpenses(expenses)
           IN  /\ Range(mine) = Range(theirs)
               /\ [k \in DOMAIN mine |-> mine[k].value]
                    = [k \in DOMAIN theirs |-> theirs[k].value]
               /\ [k \in DOMAIN top |-> top[k].amount]
                    = [k \in DOMAIN theirTop |-> theirTop[k].amount]

\* two orderings whose top-5 lists hold the same amounts but different expenses
C13_Witness ==
  /\ loaded /\ view = "REPORTS"
  /\ transactions # ById(transactions)
  /\ LET top == topExpenses(RepExpenses)
         theirTop == topExpenses(filteredExpenseData(
                       filteredData(ById(transactions), repPeriod, currentDate,
                                    customRange, tz), selectedCategories))
     IN  /\ Len(top) = 5
         /\ top # theirTop
         /\ Range(top) # Range(theirTop)

(***************************************************************************)
(* C19: topExpenses of Reports has min(5, n) entries for the n expenses of *)
(* the period that pass the category selection, in non-increasing order of *)
(* amount; no omitted expense is larger than the smallest one listed, and  *)
(* expenses of equal amount keep their order in the list.                  *)
(***************************************************************************)
\* the position of the transaction t in list
PositionIn(list, t) == CHOOSE i \in DOMAIN list : list[i] = t

C19_TopFiveLargestStable ==
  (loaded /\ view = "REPORTS") =>
    LET expenses == SelectSeq(RepFiltered, LAMBDA t :
                      /\ t.type = EXPENSE
                      /\ (selectedCategories = <<>>
                            \/ t.category \in Range(selectedCategories)))
        n == Len(expenses)
        top == topExpenses(RepExpenses)
    IN  /\ Len(top) = IF n < 5 THEN n ELSE 5
        /\ Range(top) \subseteq Range(expenses)
        /\ \A k \in 1..(Len(top) - 1) :
             /\ top[k].amount >= top[k + 1].amount
             /\ top[k].amount = top[k + 1].amount =>
                  PositionIn(expenses, top[k]) < PositionIn(expenses, top[k + 1])
        /\ \A i \in DOMAIN expenses :
             expenses[i] \notin Range(top) =>
               \A k \in DOMAIN top :
                 /\ expenses[i].amount <= top[k].amount
                 /\ expenses[i].amount = top[k].amount =>
                      PositionIn(expenses, top[k]) < i

\* six expenses, the one left out as large as the last one listed
C19_Witness ==
  /\ loaded /\ view = "REPORTS"
  /\ Len(RepExpenses) = 6
  /\ LET top == topExpenses(RepExpenses)
     IN  /\ Len(top) = 5
         /\ top[2].amount = top[3].amount
         /\ \E i \in DOMAIN RepExpenses :
              /\ RepExpenses[i] \notin Range(top)
              /\ RepExpenses[i].amount = top[5].amount

(***************************************************************************)
(* C14: under CUSTOM, Reports takes exactly the transactions dated from    *)
(* the start day to the end day, both included; with the end day before    *)
(* the start day it takes none and income, expense and profit are 0.       *)
(***************************************************************************)
C14_CustomRangeIsInclusive ==
  (loaded /\ view = "REPORTS" /\ repPeriod = "CUSTOM") =>
    LET first == DayNumber(customRange.start)
        last == DayNumber(customRange.end)
        data == RepFiltered
    IN  /\ data = SelectSeq(transactions, LAMBDA t :
                    first <= DayNumber(t.date) /\ DayNumber(t.date) <= last)
        /\ last < first =>
             /\ data = <<>>
             /\ ReportStats(data) = [income |-> 0, expense |-> 0, profit |-> 0]

\* the end day set before the start day, with transactions dated on both days
C14_Witness ==
  /\ loaded /\ view = "REPORTS" /\ repPeriod = "CUSTOM"
  /\ DayNumber(customRange.end) < DayNumber(customRange.start)
  /\ \E i, j \in DOMAIN transactions :
       /\ transactions[i].date = customRange.start
       /\ transactions[j].date = customRange.end
  /\ RepFiltered = <<>>

(***************************************************************************)
(* C20: under THIS_MONTH and LAST_MONTH the Dashboard time series has one  *)
(* bucket for every day of the selected month, named 1..N in ascending     *)
(* order, each with the income and expense sums of the transactions dated  *)
(* that day and zero where there is none.                                  *)
(***************************************************************************)
\* the sum of the amounts of the transactions of list dated date, income or not
DaySum(list, date, income) ==
  Sum(Amounts(SelectSeq(list, LAMBDA t :
                          t.date = date /\ ((t.type = INCOME) <=> income))))

C20_OneBucketPerDayOfMonth ==
  (loaded /\ view = "DASHBOARD" /\ period \in {"THIS_MONTH", "LAST_MONTH"}) =>
    LET number == MonthNumber(LocalDate(now, tz))
                    - (IF period = "LAST_MONTH" THEN 1 ELSE 0)
        y == number \div 12
        m == (number % 12) + 1
        N == DaysFromCivil(IF m = 12 THEN y + 1 ELSE y, IF m = 12 THEN 1 ELSE m + 1, 1)
               - DaysFromCivil(y, m, 1)
    IN  \A chart \in DashCharts :
          /\ Len(chart) = N
          /\ \A i \in 1..N :
               /\ chart[i].name = <<i>>
               /\ chart[i].masuk = DaySum(transactions, <<y, m, i>>, TRUE)
               /\ chart[i].keluar = DaySum(transactions, <<y, m, i>>, FALSE)

(***************************************************************************)
(* C15: a transaction without a readable date is in no bucket of the time  *)
(* series of Dashboard and Reports, whatever the period, and is counted in *)
(* the balance of its account.                                             *)
(***************************************************************************)
\* the transactions of list that have a date
Dated(list) == SelectSeq(list, LAMBDA t : t.date # NoDate)

C15_UndatedInNoBucket ==
  /\ (loaded /\ view = "DASHBOARD") =>
       /\ DashCharts = chartData(filteredTransactions(Dated(transactions), period, now, tz),
                                 period, now, tz)
       /\ \A i \in DOMAIN accounts :
            DashBalances[i].currentBalance =
              accounts[i].initialBalance + AmountAt(PositionsOf(accounts[i].id, INCOME))
                - AmountAt(PositionsOf(accounts[i].id, EXPENSE))
  /\ (loaded /\ view = "REPORTS") =>
       RepChart = ReportsChartData(
                    filteredData(Dated(transactions), repPeriod, currentDate,
                                 customRange, tz),
                    repPeriod, currentDate, tz)

(***************************************************************************)
(* C16: a transaction whose accountId is absent or is the id of no account *)
(* of the list counts in no account's currentBalance and not in            *)
(* totalAssets, and counts in income, expense and net of the Dashboard     *)
(* period; removing an account leaves the transaction list unchanged.      *)
(***************************************************************************)
\* the positions of the transactions of list with an account of accounts
Matched(list) ==
  {k \in DOMAIN list : \E i \in DOMAIN accounts : accounts[i].id = list[k].accountId}

\* income minus expense over the positions S of list
RECURSIVE NetOver(_, _)
NetOver(list, S) ==
  IF S = {} THEN 0
  ELSE LET k == CHOOSE j \in S : TRUE
       IN  (IF list[k].type = INCOME THEN list[k].amount ELSE 0 - list[k].amount)
             + NetOver(list, S \ {k})

\* the accounts have different ids
DistinctAccounts ==
  \A i, j \in DOMAIN accounts : accounts[i].id = accounts[j].id => i = j

C16_OrphansCountInTotalsOnly ==
  /\ [](loaded /\ view = "DASHBOARD" =>
          LET balances == DashBalances
              stats == DashboardStats(DashFiltered)
              income == {k \in DOMAIN DashFiltered : DashFiltered[k].type = INCOME}
          IN  /\ \A i \in DOMAIN accounts :
                   balances[i].currentBalance =
                     accounts[i].initialBalance
                       + NetOver(transactions,
                                 {k \in DOMAIN transactions :
                                    transactions[k].accountId = accounts[i].id})
              /\ DistinctAccounts =>
                   totalAssets(balances) =
                     Sum([i \in DOMAIN accounts |-> accounts[i].initialBalance])
                       + NetOver(transactions, Matched(transactions))
              /\ stats.income = NetOver(DashFiltered, income)
              /\ stats.expense = 0 - NetOver(DashFiltered, DOMAIN DashFiltered \ income)
              /\ stats.balance = NetOver(DashFiltered, DOMAIN DashFiltered))
  /\ [][(loaded /\ Len(accounts') < Len(accounts)) => transactions' = transactions]_vars

\* the Dashboard after the account of a transaction of the period was removed
C16_Witness ==
  /\ loaded /\ view = "DASHBOARD"
  /\ Len(accounts) < Len(storage.accounts.val)
  /\ \E k \in DOMAIN DashFiltered :
       /\ k \notin Matched(DashFiltered)
       /\ \E i \in DOMAIN storage.accounts.val :
            storage.accounts.val[i].id = DashFiltered[k].accountId
  /\ \E k \in DOMAIN transactions : transactions[k].accountId = NoAccount
  /\ totalAssets(DashBalances) # 
       Sum([i \in DOMAIN accounts |-> accounts[i].initialBalance])
         + NetOver(transactions, DOMAIN transactions)

(***************************************************************************)
(* C17: no operation changes a field of an existing transaction. Load      *)
(* takes the stored transactions as they are, addTransaction only          *)
(* prepends, a confirmed delete removes the transactions with the          *)
(* requested id and keeps the others in their order, and nothing else but  *)
(* a confirmed clear-all changes the list.                                 *)
(***************************************************************************)
\* a step of the loaded App that changes the list prepends one transaction,
\* removes the requested id, or clears the list
ListStepKeepsTransactions ==
  (loaded /\ loaded' /\ transactions' # transactions) =>
    \/ /\ Len(transactions') = Len(transactions) + 1
       /\ Tail(transactions') = transactions
    \/ /\ pendingAction.type = "DELETE_TRANSACTION"
       /\ transactions' = SelectSeq(transactions,
                                    LAMBDA t : t.id # pendingAction.payload)
    \/ /\ pendingAction.type = "CLEAR_ALL_TRANSACTIONS"
       /\ transactions' = <<>>

C17_TransactionsNeverUpdated ==
  [][/\ (~loaded /\ loaded' /\ storage.transactions.has) =>
          transactions' = storage.transactions.val
     /\ ListStepKeepsTransactions]_vars

(***************************************************************************)
(* C17, amended: as C17, except that load gives the id of the first        *)
(* account as accountId to a stored transaction that has none; every other *)
(* field and every other transaction is taken as stored.                   *)
(***************************************************************************)
C17_OnlyLoadFillsAccountId ==
  [][/\ (~loaded /\ loaded' /\ storage.transactions.has) =>
          LET stored == storage.transactions.val
          IN  /\ Len(transactions') = Len(stored)
              /\ \A k \in DOMAIN stored :
                   transactions'[k] =
                     IF stored[k].accountId = NoAccount
                     THEN [stored[k] EXCEPT !.accountId = accounts'[1].id]
                     ELSE stored[k]
     /\ ListStepKeepsTransactions]_vars

\* loaded with an accountId filled in, then one transaction added and the other
\* stored one deleted
C17_Witness ==
  /\ loaded
  /\ Len(transactions) = 2
  /\ transactions[2].id = UsedStorage.transactions.val[1].id
  /\ UsedStorage.transactions.val[1].accountId = NoAccount
  /\ transactions[2].accountId = accounts[1].id
  /\ \A k \in DOMAIN UsedStorage.transactions.val :
       transactions[1].id # UsedStorage.transactions.val[k].id

C21_EveryTransactionHasAccountId ==
  loaded => \A k \in DOMAIN transactions : transactions[k].accountId # NoAccount

(***************************************************************************)
(* C27: in every time zone, THIS_MONTH and TODAY of Dashboard and MONTHLY  *)
(* of Reports go by the day and month written in the transaction's date:   *)
(* THIS_MONTH and MONTHLY hold exactly the transactions dated in the       *)
(* month, and TODAY holds those dated on the reference day and none dated  *)
(* before it.                                                              *)
(***************************************************************************)
C27_ClassifiedByWrittenDate ==
  /\ (loaded /\ view = "DASHBOARD" /\ period = "THIS_MONTH") =>
       DashFiltered = SelectSeq(transactions, LAMBDA t :
                        MonthNumber(t.date) = MonthNumber(LocalDate(now, tz)))
  /\ (loaded /\ view = "DASHBOARD" /\ period = "TODAY") =>
       \A k \in DOMAIN transactions :
         LET t == transactions[k]
             today == DayNumber(LocalDate(now, tz))
         IN  /\ DayNumber(t.date) = today => t \in Range(DashFiltered)
             /\ DayNumber(t.date) < today => t \notin Range(DashFiltered)
  /\ (loaded /\ view = "REPORTS" /\ repPeriod = "MONTHLY") =>
       RepFiltered = SelectSeq(transactions, LAMBDA t :
                       MonthNumber(t.date) = MonthNumber(LocalDate(currentDate, tz)))

(***************************************************************************)
(* C30: while the confirmation modal is closed there is no pending action: *)
(* confirming and cancelling both discard it.                              *)
(***************************************************************************)
C30_ClosedModalHasNoPendingAction ==
  ~modalConfig.isOpen => pendingAction = NoAction

(***************************************************************************)
(* C23: a transaction leaves the list only when executeConfirm acts on the *)
(* request made for it. A step that opens the modal keeps the list;        *)
(* nothing changes the request or the list while the modal is open; Batal  *)
(* keeps the list; a transaction leaves only by a confirmed delete of its  *)
(* id or a confirmed clear-all while the page stays loaded; and with an    *)
(* empty list no clear-all request is recorded.                            *)
(***************************************************************************)
\* what holds of requests, Batal and an open modal in C23 and its amendment
RequestsAndCancelKeepList ==
  /\ (~modalConfig.isOpen /\ modalConfig'.isOpen) =>
       /\ transactions' = transactions
       /\ pendingAction'.type = "DELETE_TRANSACTION" =>
            \E k \in DOMAIN transactions : transactions[k].id = pendingAction'.payload
  /\ (modalConfig.isOpen /\ modalConfig'.isOpen) =>
       /\ pendingAction' = pendingAction
       /\ transactions' = transactions
  /\ (modalConfig.isOpen /\ ~modalConfig'.isOpen /\ pendingAction' = pendingAction) =>
       transactions' = transactions
  /\ (loaded /\ transactions = <<>> /\ pendingAction' # pendingAction) =>
       pendingAction'.type # "CLEAR_ALL_TRANSACTIONS"

\* the step is executeConfirm on a delete or clear-all request
ConfirmedRemoval ==
  /\ modalConfig.isOpen /\ ~modalConfig'.isOpen
  /\ pendingAction' = NoAction
  /\ pendingAction.type \in {"DELETE_TRANSACTION", "CLEAR_ALL_TRANSACTIONS"}
  /\ transactions' =
       IF pendingAction.type = "DELETE_TRANSACTION"
       THEN SelectSeq(transactions, LAMBDA t : t.id # pendingAction.payload)
       ELSE <<>>

\* some transaction of the list is not in the next list
SomeTransactionLeaves ==
  \E k \in DOMAIN transactions : transactions[k] \notin Range(transactions')

C23_OnlyConfirmedRequestsRemove ==
  [][/\ RequestsAndCancelKeepList
     /\ (SomeTransactionLeaves /\ loaded') => ConfirmedRemoval]_vars

(***************************************************************************)
(* C23, amended: as C23, except that the list is also replaced by a backup *)
(* import in Settings and emptied when the page is loaded again, after a   *)
(* confirmed reset or otherwise; none of these goes through a request made *)
(* for the transactions that leave.                                        *)
(***************************************************************************)
C23_RemovalByConfirmImportOrReload ==
  [][/\ RequestsAndCancelKeepList
     /\ SomeTransactionLeaves =>
          \/ ConfirmedRemoval
          \/ /\ loaded /\ ~loaded'
             /\ transactions' = <<>>
             /\ \/ storage' = storage
                \/ modalConfig.isOpen /\ pendingAction.type = "RESET_DATA"
          \/ /\ loaded /\ view = "SETTINGS" /\ ~modalConfig.isOpen
             /\ pendingAction' = pendingAction /\ modalConfig' = modalConfig
             /\ timers'.transactions = Stored(transactions')]_vars

\* one stored transaction deleted, then the deletion of the other one asked for
\* and cancelled
C23_Witness ==
  /\ loaded /\ ~modalConfig.isOpen
  /\ storage.transactions.has /\ Len(storage.transactions.val) = 2
  /\ Len(transactions) = 1
  /\ pendingAction.type = "DELETE_TRANSACTION"
  /\ transactions[1].id = pendingAction.payload

(***************************************************************************)
(* Settings: the category handlers.                                        *)
(***************************************************************************)
\* Array.prototype.includes
ArrayIncludes(list, x) == \E i \in DOMAIN list : list[i] = x

categoryFrame ==
  UNCHANGED <<transactions, accounts, pendingAction, modalConfig, view, loaded,
              storage, now, tz, dashVars, repVars, listVars, invoices,
              invoiceVars, formVars, requestVars>>

\* addCategory with a non-blank newCategory under the tab categoryType
addCategory(categoryType, newCategory) ==
  /\ loaded
  /\ ~modalConfig.isOpen
  /\ ~showAddModal
  /\ view = "SETTINGS"
  /\ newCategory # <<>>
  /\ IF categoryType = "EXPENSE"
     THEN /\ ~ArrayIncludes(expenseCategories, newCategory)
          /\ expenseCategories' = Append(expenseCategories, newCategory)
          /\ timers' = Schedule(timers, "exp_categories", expenseCategories')
          /\ UNCHANGED incomeCategories
     ELSE /\ ~ArrayIncludes(incomeCategories, newCategory)
          /\ incomeCategories' = Append(incomeCategories, newCategory)
          /\ timers' = Schedule(timers, "inc_categories", incomeCategories')
          /\ UNCHANGED expenseCategories
  /\ categoryFrame

\* removeCategory on the chip of cat under the tab categoryType
removeCategory(categoryType, cat) ==
  /\ loaded
  /\ ~modalConfig.isOpen
  /\ ~showAddModal
  /\ view = "SETTINGS"
  /\ IF categoryType = "EXPENSE"
     THEN /\ ArrayIncludes(expenseCategories, cat)
          /\ expenseCategories' = SelectSeq(expenseCategories, LAMBDA c : c # cat)
          /\ timers' = Schedule(timers, "exp_categories", expenseCategories')
          /\ UNCHANGED incomeCategories
     ELSE /\ ArrayIncludes(incomeCategories, cat)
          /\ incomeCategories' = SelectSeq(incomeCategories, LAMBDA c : c # cat)
          /\ timers' = Schedule(timers, "inc_categories", incomeCategories')
          /\ UNCHANGED expenseCategories
  /\ categoryFrame

(***************************************************************************)
(* Specification of the backup import over every collection of the App.    *)
(***************************************************************************)
\* a browser that holds one invoice and its own expense categories
StoredInvoices == << [id |-> 11, clientName |-> Toko] >>
BackupStorage ==
  [UsedStorage EXCEPT !.invoices = Stored(StoredInvoices),
                      !.exp_categories = Stored(<<Kopi>>)]

\* files that are no backup (one of them with every list but transactions), and
\* backups with none, some and all of the optional lists
BackupInvoices == << [id |-> 12, clientName |-> Kopi] >>
FullBackups ==
  { NotABackup,
    [valid |-> FALSE, transactions |-> <<>>,
     hasAccounts |-> TRUE, accounts |-> DefaultAccounts,
     hasInvoices |-> TRUE, invoices |-> BackupInvoices,
     hasExpenseCategories |-> TRUE, expenseCategories |-> <<Lainnya>>,
     hasIncomeCategories |-> TRUE, incomeCategories |-> <<Lainnya>>],
    [NotABackup EXCEPT !.valid = TRUE],
    [valid |-> TRUE, transactions |-> <<>>,
     hasAccounts |-> FALSE, accounts |-> <<>>,
     hasInvoices |-> TRUE, invoices |-> BackupInvoices,
     hasExpenseCategories |-> FALSE, expenseCategories |-> <<>>,
     hasIncomeCategories |-> TRUE, incomeCategories |-> <<Lainnya>>],
    [valid |-> TRUE, transactions |-> UsedStorage.transactions.val,
     hasAccounts |-> TRUE, accounts |-> DefaultAccounts,
     hasInvoices |-> TRUE, invoices |-> <<>>,
     hasExpenseCategories |-> TRUE, expenseCategories |-> <<Lainnya>>,
     hasIncomeCategories |-> TRUE, incomeCategories |-> <<>>] }

InitBackup ==
  /\ Constructed
  /\ tz = 0
  /\ now = AppStart
  /\ storage \in {FreshStorage, BackupStorage}

NextBackup ==
  \/ Load
  \/ \E v \in {"DASHBOARD", "SETTINGS"} : SetView(v)
  \/ \E json \in FullBackups : handleImportData(json)
  \/ \E categoryType \in {"EXPENSE", "INCOME"} : addCategory(categoryType, Kopi)
  \/ \E categoryType \in {"EXPENSE", "INCOME"}, cat \in {Kopi, Lainnya} :
       removeCategory(categoryType, cat)

SpecBackup == InitBackup /\ [][NextBackup]_vars

\* the five collections of the App
Collections ==
  <<transactions, invoices, accounts, expenseCategories, incomeCategories>>

\* C25: a backup import either succeeds or changes nothing. A file that is not
\* valid JSON or has no transactions array leaves transactions, invoices,
\* accounts and both category lists as they were; a backup replaces the
\* transactions by the file's, and replaces each of invoices, accounts and the
\* two category lists exactly when the file has it.
C25_ImportSucceedsOrChangesNothing ==
  [][\A json \in FullBackups :
       handleImportData(json) =>
         IF ~json.valid
         THEN UNCHANGED Collections
         ELSE /\ transactions' = json.transactions
              /\ invoices' = IF json.hasInvoices THEN json.invoices ELSE invoices
              /\ accounts' = IF json.hasAccounts THEN json.accounts ELSE accounts
              /\ expenseCategories' = IF json.hasExpenseCategories
                                      THEN json.expenseCategories
                                      ELSE expenseCategories
              /\ incomeCategories' = IF json.hasIncomeCategories
                                     THEN json.incomeCategories
                                     ELSE incomeCategories]_vars

\* a backup without accounts and expense categories was imported over stored
\* invoices and categories: the invoices are the file's, the expense categories
\* still the stored ones
C25_Witness ==
  /\ loaded
  /\ storage.invoices = Stored(StoredInvoices)
  /\ invoices = BackupInvoices
  /\ incomeCategories = <<Lainnya>>
  /\ expenseCategories = <<Kopi>>
  /\ accounts = UsedStorage.accounts.val
  /\ transactions = <<>>

(***************************************************************************)
(* InvoiceGenerator.  An invoice is its id and its client name; the dates,  *)
(* the items and the status of the editor are copied as the name is.       *)
(***************************************************************************)
MaxInvoices == 3

invoiceReady == loaded /\ ~modalConfig.isOpen /\ ~showAddModal /\ view = "INVOICE"

invoiceFrame ==
  UNCHANGED <<transactions, accounts, pendingAction, modalConfig, view, loaded,
              storage, now, tz, dashVars, repVars, listVars, expenseCategories,
              incomeCategories, formVars, requestVars>>

\* the client name input
setClientName(name) ==
  /\ invoiceReady
  /\ name # clientName
  /\ clientName' = name
  /\ UNCHANGED <<invoices, currentId, timers>>
  /\ invoiceFrame

\* a save that adds an invoice whatever currentId is
handleSave_AlwaysPrepend ==
  /\ invoiceReady
  /\ clientName # <<>>
  /\ invoices' = <<[id |-> now, clientName |-> clientName]>> \o invoices
  /\ currentId' = now
  /\ timers' = Schedule(timers, "invoices", invoices')
  /\ UNCHANGED clientName
  /\ invoiceFrame

\* handleSave with a non-blank client name; the id of a new invoice is Date.now()
handleSave ==
  /\ invoiceReady
  /\ clientName # <<>>
  /\ LET invoiceData == [id |-> IF currentId # NoInvoice THEN currentId ELSE now,
                         clientName |-> clientName]
     IN  IF currentId # NoInvoice
         THEN /\ invoices' = [k \in DOMAIN invoices |->
                                IF invoices[k].id = currentId THEN invoiceData
                                ELSE invoices[k]]
              /\ UNCHANGED currentId
         ELSE /\ Len(invoices) < MaxInvoices
              /\ invoices' = <<invoiceData>> \o invoices
              /\ currentId' = invoiceData.id
  /\ timers' = Schedule(timers, "invoices", invoices')
  /\ UNCHANGED clientName
  /\ invoiceFrame

\* handleEdit on a row of the history
handleEdit(invoice) ==
  /\ invoiceReady
  /\ currentId' = invoice.id
  /\ clientName' = invoice.clientName
  /\ UNCHANGED <<invoices, timers>>
  /\ invoiceFrame

\* handleNew
handleNew ==
  /\ invoiceReady
  /\ currentId' = NoInvoice
  /\ clientName' = <<>>
  /\ UNCHANGED <<invoices, timers>>
  /\ invoiceFrame

\* handleDelete on a row of the history, the confirm() answered with OK
handleDelete(id) ==
  /\ invoiceReady
  /\ invoices' = SelectSeq(invoices, LAMBDA inv : inv.id # id)
  /\ timers' = Schedule(timers, "invoices", invoices')
  /\ IF currentId = id
     THEN currentId' = NoInvoice /\ clientName' = <<>>
     ELSE UNCHANGED <<currentId, clientName>>
  /\ invoiceFrame

(***************************************************************************)
(* Specification of InvoiceGenerator over an empty and a stored history of *)
(* invoices, up to MaxInvoices of them.                                    *)
(***************************************************************************)
ClientNames == {Toko, Kopi, <<>>}

InitInvoice ==
  /\ Constructed
  /\ tz = 0
  /\ now = AppStart
  /\ storage \in {FreshStorage, BackupStorage}

NextInvoice ==
  \/ Load
  \/ (now < AppStart + MaxTicks /\ Tick)
  \/ \E v \in {"DASHBOARD", "INVOICE"} : SetView(v)
  \/ \E name \in ClientNames : setClientName(name)
  \/ handleSave
  \/ \E k \in DOMAIN invoices : handleEdit(invoices[k])
  \/ handleNew
  \/ \E k \in DOMAIN invoices : handleDelete(invoices[k].id)


SpecInvoice == InitInvoice /\ [][NextInvoice]_vars

\* C26: in InvoiceGenerator, a save with an empty currentId puts exactly one
\* invoice in front of the list and sets currentId to its id; a save with a
\* non-empty currentId replaces the invoice of that id by the editor's and
\* leaves the length of the list and every other invoice as they were; the
\* invoice currentId names is always in the list, so that saving again updates
\* it in place; and deleting the invoice being edited empties currentId.
C26_SaveInPlaceAndDeleteResets ==
  /\ [](currentId # NoInvoice => \E k \in DOMAIN invoices : invoices[k].id = currentId)
  /\ [][/\ handleSave =>
             IF currentId = NoInvoice
             THEN /\ Len(invoices') = Len(invoices) + 1
                  /\ Tail(invoices') = invoices
                  /\ invoices'[1].clientName = clientName
                  /\ currentId' = invoices'[1].id
                  /\ currentId' # NoInvoice
             ELSE /\ Len(invoices') = Len(invoices)
                  /\ currentId' = currentId
                  /\ \A k \in DOMAIN invoices :
                       invoices'[k] =
                         IF invoices[k].id = currentId
                         THEN [id |-> currentId, clientName |-> clientName]
                         ELSE invoices[k]
        /\ \A k \in DOMAIN invoices :
             (handleDelete(invoices[k].id) /\ invoices[k].id = currentId)
               => (currentId' = NoInvoice /\ clientName' = <<>>)]_vars

\* a new invoice was saved and saved again under another client name: the
\* history holds the stored invoice and one more, which has the second name
C26_Witness ==
  /\ view = "INVOICE"
  /\ Len(invoices) = 2
  /\ invoices[2] = StoredInvoices[1]
  /\ currentId = invoices[1].id
  /\ invoices[1].clientName = Kopi
  /\ clientName = Kopi
  /\ timers.invoices = Stored(invoices)

(***************************************************************************)
(* TransactionForm: the form is mounted while showAddModal holds.  Of      *)
(* formData the type and the category are state; the other fields are      *)
(* given on submit.                                                        *)
(***************************************************************************)
formFrame ==
  UNCHANGED <<accounts, pendingAction, modalConfig, view, loaded, storage, now,
              tz, dashVars, repVars, listVars, appLists, invoiceVars,
              isAnalyzing, loading, isSyncing>>

\* the list the category select offers for type t
ListOfType(t) == IF t = EXPENSE THEN expenseCategories ELSE incomeCategories

\* the effect on [formData.type, expenseCategories, incomeCategories]: a
\* category the list of the type does not have gives way to its first, or 'Umum'
CategoryEffect(fd) ==
  LET currentList == ListOfType(fd.type)
  IN  IF ~ArrayIncludes(currentList, fd.category)
      THEN [fd EXCEPT !.category = IF Len(currentList) > 0 THEN currentList[1]
                                   ELSE Umum]
      ELSE fd

\* the add buttons: setShowAddModal(true); the form mounts and its effect runs
openForm ==
  /\ loaded
  /\ ~modalConfig.isOpen
  /\ ~showAddModal
  /\ showAddModal' = TRUE
  /\ formData' = CategoryEffect(FormMount(expenseCategories))
  /\ isScanning' = FALSE
  /\ UNCHANGED <<transactions, timers, analysisPoints, requests>>
  /\ formFrame

\* onClose without a submit: the form unmounts, a scan still running is dropped
closeForm ==
  /\ showAddModal
  /\ showAddModal' = FALSE
  /\ formData' = FormMount(<<>>)
  /\ isScanning' = FALSE
  /\ requests' = {r \in requests : r.kind # "scan"}
  /\ UNCHANGED <<transactions, timers, analysisPoints>>
  /\ formFrame

\* the two type buttons: the type and the first category of its list, or 'Umum'
typeClicked(t) ==
  /\ showAddModal
  /\ formData' = CategoryEffect(
       [type |-> t,
        category |-> IF ListOfType(t) = <<>> THEN Umum ELSE ListOfType(t)[1]])
  /\ UNCHANGED <<transactions, timers, showAddModal, isScanning, analysisPoints,
                 requests>>
  /\ formFrame

\* the category select: one of the options of the current type
categorySelected(cat) ==
  /\ showAddModal
  /\ ArrayIncludes(ListOfType(formData.type), cat)
  /\ formData' = [formData EXCEPT !.category = cat]
  /\ UNCHANGED <<transactions, timers, showAddModal, isScanning, analysisPoints,
                 requests>>
  /\ formFrame

\* handleScanReceipt up to its first await; the scan button is disabled while
\* isScanning
handleScanReceipt ==
  /\ showAddModal
  /\ ~isScanning
  /\ isScanning' = TRUE
  /\ requests' = requests \cup {[kind |-> "scan", of |-> <<>>]}
  /\ UNCHANGED <<transactions, timers, showAddModal, formData, analysisPoints>>
  /\ formFrame

\* scanReceiptWithGemini resolves with a result of the given category ('' for
\* none): the category and the type EXPENSE are set, the effect runs when the
\* type has changed, and finally isScanning is cleared
scanResolved(category) ==
  /\ showAddModal
  /\ [kind |-> "scan", of |-> <<>>] \in requests
  /\ LET scanned == [type |-> EXPENSE,
                     category |-> IF category # <<>> THEN category
                                  ELSE formData.category]
     IN  formData' = IF formData.type # EXPENSE THEN CategoryEffect(scanned)
                     ELSE scanned
  /\ isScanning' = FALSE
  /\ requests' = requests \ {[kind |-> "scan", of |-> <<>>]}
  /\ UNCHANGED <<transactions, timers, showAddModal, analysisPoints>>
  /\ formFrame

\* scanReceiptWithGemini rejects: the alert, and finally isScanning is cleared
scanRejected ==
  /\ showAddModal
  /\ [kind |-> "scan", of |-> <<>>] \in requests
  /\ isScanning' = FALSE
  /\ requests' = requests \ {[kind |-> "scan", of |-> <<>>]}
  /\ UNCHANGED <<transactions, timers, showAddModal, formData, analysisPoints>>
  /\ formFrame

\* handleSubmit of the mounted form, the fields other than type and category
\* being those of f: onAddTransaction, then onClose
formSubmit(f) ==
  /\ showAddModal
  /\ Len(transactions) < MaxTx
  /\ addTransaction([f EXCEPT !.type = formData.type,
                              !.category = formData.category,
                              !.accountId =
                                IF f.accountId # NoAccount THEN f.accountId
                                ELSE IF Len(accounts) > 0 THEN accounts[1].id
                                ELSE UnknownAccount])
  /\ showAddModal' = FALSE
  /\ formData' = FormMount(<<>>)
  /\ isScanning' = FALSE
  /\ requests' = {r \in requests : r.kind # "scan"}
  /\ analysisPoints' = NoAnalysis
  /\ formFrame

(***************************************************************************)
(* Specification of TransactionForm over the default category lists and    *)
(* over stored lists of the user's own.                                    *)
(***************************************************************************)
\* a browser whose user keeps one expense category and no income category
FormStorage ==
  [EmptyStorage EXCEPT !.transactions = Stored(<<>>),
                       !.exp_categories = Stored(<<Kopi>>),
                       !.inc_categories = Stored(<<>>)]

\* the categories a scan result has: none, and two of those the prompt names
ScanCategories == {<<>>, MakananMinuman, Lainnya}

InitForm ==
  /\ Constructed
  /\ tz = 0
  /\ now = AppStart
  /\ storage \in {FreshStorage, FormStorage}

NextForm ==
  \/ Load
  \/ openForm
  \/ closeForm
  \/ \E t \in {EXPENSE, INCOME} : typeClicked(t)
  \/ \E cat \in {MakananMinuman, Lainnya, Penjualan, Kopi} : categorySelected(cat)
  \/ handleScanReceipt
  \/ \E category \in ScanCategories : scanResolved(category)
  \/ scanRejected
  \/ \E f \in FormInputs : formSubmit(f)
  \/ Persist("transactions")

SpecForm == InitForm /\ [][NextForm]_vars

\* C28: every transaction submitted from TransactionForm has a category of the
\* list of its type, or 'Umum' when that list is empty, whatever type switches,
\* category selections and receipt scans came before the submit.
C28_SubmittedCategoryInList ==
  [][(showAddModal /\ ~showAddModal' /\ Len(transactions') = Len(transactions) + 1)
       => LET t == transactions'[1]
              list == ListOfType(t.type)
          IN  IF list = <<>> THEN t.category = Umum
              ELSE ArrayIncludes(list, t.category)]_vars

(***************************************************************************)
(* The external requests: report analysis (Reports), advice (AIAdvisor),   *)
(* Drive upload and restore (Settings).  A request that was started and    *)
(* has not settled is in requests, with what it was started for.           *)
(***************************************************************************)
requestFrame ==
  UNCHANGED <<transactions, accounts, pendingAction, modalConfig, view, loaded,
              storage, timers, now, tz, dashVars, repVars, listVars, appLists,
              invoiceVars, formVars>>

\* the dependencies of the effect that clears the analysis shown
Selection ==
  <<transactions, repPeriod, currentDate, customRange, selectedCategories>>

\* handleAnalyze up to its await; both of its buttons are rendered only while
\* isAnalyzing is false
handleAnalyze ==
  /\ repReady
  /\ ~showAddModal
  /\ ~isAnalyzing
  /\ Len(RepFiltered) # 0
  /\ isAnalyzing' = TRUE
  /\ requests' = requests \cup {[kind |-> "analysis", of |-> Selection]}
  /\ UNCHANGED <<analysisPoints, loading, isSyncing>>
  /\ requestFrame

\* getReportAnalysis resolves, with a summary or without one: the summary of
\* the data the request was made for is shown, and finally isAnalyzing is cleared
analysisResolved(r, hasSummary) ==
  /\ r \in requests
  /\ r.kind = "analysis"
  /\ analysisPoints' = IF hasSummary THEN r.of ELSE analysisPoints
  /\ isAnalyzing' = FALSE
  /\ requests' = requests \ {r}
  /\ UNCHANGED <<loading, isSyncing>>
  /\ requestFrame

\* getReportAnalysis rejects: the alert, and finally isAnalyzing is cleared
analysisRejected(r) ==
  /\ r \in requests
  /\ r.kind = "analysis"
  /\ isAnalyzing' = FALSE
  /\ requests' = requests \ {r}
  /\ UNCHANGED <<analysisPoints, loading, isSyncing>>
  /\ requestFrame

\* handleGenerateAdvice up to its await; its buttons are rendered only while
\* loading is false
handleGenerateAdvice ==
  /\ loaded
  /\ ~modalConfig.isOpen
  /\ ~showAddModal
  /\ view = "AI_ADVISOR"
  /\ ~loading
  /\ Len(transactions) # 0
  /\ loading' = TRUE
  /\ requests' = requests \cup {[kind |-> "advice", of |-> <<>>]}
  /\ UNCHANGED <<analysisPoints, isAnalyzing, isSyncing>>
  /\ requestFrame

\* an advice request whose rejection skips the finally block
adviceSettled_NoFinally(outcome) ==
  /\ [kind |-> "advice", of |-> <<>>] \in requests
  /\ loading' = (outcome = "rejected")
  /\ requests' = requests \ {[kind |-> "advice", of |-> <<>>]}
  /\ UNCHANGED <<analysisPoints, isAnalyzing, isSyncing>>
  /\ requestFrame

\* getFinancialAdvice resolves or rejects: finally loading is cleared
adviceSettled(outcome) ==
  /\ [kind |-> "advice", of |-> <<>>] \in requests
  /\ loading' = FALSE
  /\ requests' = requests \ {[kind |-> "advice", of |-> <<>>]}
  /\ UNCHANGED <<analysisPoints, isAnalyzing, isSyncing>>
  /\ requestFrame

\* uploadToDrive and restoreFromDrive of a connected Settings up to the first
\* await; both buttons are disabled while isSyncing
driveStarted(kind) ==
  /\ loaded
  /\ ~modalConfig.isOpen
  /\ ~showAddModal
  /\ view = "SETTINGS"
  /\ ~isSyncing
  /\ isSyncing' = TRUE
  /\ requests' = requests \cup {[kind |-> kind, of |-> <<>>]}
  /\ UNCHANGED <<analysisPoints, isAnalyzing, loading>>
  /\ requestFrame

\* the Drive calls resolve or reject: finally isSyncing is cleared (a restore
\* that found a backup has handed its file to handleImportData)
driveSettled(kind, outcome) ==
  /\ [kind |-> kind, of |-> <<>>] \in requests
  /\ isSyncing' = FALSE
  /\ requests' = requests \ {[kind |-> kind, of |-> <<>>]}
  /\ UNCHANGED <<analysisPoints, isAnalyzing, loading>>
  /\ requestFrame

(***************************************************************************)
(* Specification of the external requests, and the same under the          *)
(* condition that every call made resolves or rejects.                     *)
(***************************************************************************)
Outcomes == {"resolved", "rejected"}
DriveKinds == {"upload", "restore"}

InitRequests ==
  /\ Constructed
  /\ tz = 0
  /\ now = AppStart
  /\ storage \in {FreshStorage, UsedStorage}

analysisSettled ==
  \E r \in requests :
    \/ \E hasSummary \in BOOLEAN : analysisResolved(r, hasSummary)
    \/ analysisRejected(r)

scanSettled ==
  \/ scanResolved(<<>>)
  \/ scanRejected

NextRequests ==
  \/ Load
  \/ \E v \in {"DASHBOARD", "REPORTS", "AI_ADVISOR", "SETTINGS"} : SetView(v)
  \/ \E p \in {"WEEKLY", "MONTHLY", "YEARLY"} : setReportPeriod(p)
  \/ handleAnalyze
  \/ analysisSettled
  \/ handleGenerateAdvice
  \/ \E outcome \in Outcomes : adviceSettled(outcome)
  \/ \E kind \in DriveKinds : driveStarted(kind)
  \/ \E kind \in DriveKinds, outcome \in Outcomes : driveSettled(kind, outcome)
  \/ openForm
  \/ closeForm
  \/ handleScanReceipt
  \/ scanSettled

SpecRequests == InitRequests /\ [][NextRequests]_vars

SpecRequestsFair ==
  /\ SpecRequests
  /\ WF_vars(analysisSettled)
  /\ WF_vars(\E outcome \in Outcomes : adviceSettled(outcome))
  /\ WF_vars(\E kind \in DriveKinds, outcome \in Outcomes : driveSettled(kind, outcome))
  /\ WF_vars(scanSettled)

\* C24: whenever Reports shows analysis points, they were produced from the
\* transactions, period, currentDate, custom range and category selection that
\* are selected now.
C24_AnalysisOfCurrentSelection ==
  analysisPoints # NoAnalysis => analysisPoints = Selection

\* the busy flag of a kind of request
Busy(kind) ==
  CASE kind = "analysis" -> isAnalyzing
    [] kind = "advice" -> loading
    [] kind = "scan" -> isScanning
    [] OTHER -> isSyncing

\* C29: every external request that was started (advice, report analysis,
\* receipt scan, Drive upload, Drive restore) ends with its busy flag false
\* again, whether the call resolves or rejects; while a request is running its
\* flag is true, and no request is started while the flag of its kind is true.
C29_RequestsEndAndDoNotOverlap ==
  /\ [](\A r \in requests : Busy(r.kind))
  /\ [][\A r \in requests' \ requests : ~Busy(r.kind)]_vars
  /\ (isAnalyzing ~> ~isAnalyzing)
  /\ (loading ~> ~loading)
  /\ (isScanning ~> ~isScanning)
  /\ (isSyncing ~> ~isSyncing)

\* a Drive restore was started from Settings and is running: isSyncing is the
\* only flag set and the restore the only request
C29_Witness ==
  /\ view = "SETTINGS"
  /\ isSyncing
  /\ requests = {[kind |-> "restore", of |-> <<>>]}
  /\ ~isAnalyzing
  /\ ~loading

(***************************************************************************)
(* Specification of the persistence: every collection is changed, written  *)
(* after its timeout and read again by the next page load.  The timeouts   *)
(* that are set do fire, and a page that was constructed runs its load     *)
(* effect.                                                                 *)
(***************************************************************************)
StorageKeys ==
  {"transactions", "invoices", "accounts", "exp_categories", "inc_categories"}

\* the collection in memory that is written under key k
Mem(k) ==
  CASE k = "transactions" -> transactions
    [] k = "invoices" -> invoices
    [] k = "accounts" -> accounts
    [] k = "exp_categories" -> expenseCategories
    [] OTHER -> incomeCategories

InitPersist ==
  /\ Constructed
  /\ tz = 0
  /\ now = AppStart
  /\ storage \in {FreshStorage, BackupStorage}

\* a backup that has all five collections
WholeBackup ==
  [valid |-> TRUE, transactions |-> <<>>,
   hasAccounts |-> TRUE, accounts |-> DefaultAccounts,
   hasInvoices |-> TRUE, invoices |-> BackupInvoices,
   hasExpenseCategories |-> TRUE, expenseCategories |-> <<Lainnya>>,
   hasIncomeCategories |-> TRUE, incomeCategories |-> <<Penjualan>>]

NextPersist ==
  \/ Load
  \/ SetView("SETTINGS")
  \/ addCategory("EXPENSE", Kopi)
  \/ handleImportData(WholeBackup)
  \/ \E k \in StorageKeys : Persist(k)

SpecPersist ==
  /\ InitPersist
  /\ [][NextPersist]_vars
  /\ WF_vars(Load)
  /\ \A k \in StorageKeys : WF_vars(Persist(k))

====
